---- MODULE Spec2Model ----
(***************************************************************************)
(* Literal decoders of libsyntax/parse/mod.rs (char_lit, str_lit,          *)
(* raw_str_lit, byte_lit, byte_str_lit, float_lit, integer_lit) as         *)
(* operators over texts, with the parsing session and the pipeline from a  *)
(* file, a string or token trees to a parser, and the calls of them        *)
(* as a state machine: a call is set up with its arguments, the decoder    *)
(* runs to completion, and what it returned and what it emitted to the     *)
(* diagnostic handler are recorded.                                        *)
(*                                                                         *)
(* A text (&str) is a sequence of Unicode code points; byte offsets, where *)
(* the code indexes by bytes, are computed from the UTF-8 width of each    *)
(* code point.  A u32/u64 is a little-endian sequence of 16-bit limbs, so  *)
(* that the checked arithmetic of from_str_radix keeps its width.          *)
(***************************************************************************)
EXTENDS Integers, Sequences, FiniteSets, TLC

VARIABLES call, ret, diags, pc, sess, local

vars == <<call, ret, diags, pc, sess, local>>

\* ParseSess::with_span_handler: the session as constructed.  diags is its
\* span_diagnostic; next_pos is where its code_map places the next filemap.
with_span_handler == [included_mod_stack |-> <<>>, next_pos |-> 0]

\* the locals of a call before it has bound any
Unbound == [some |-> FALSE, val |-> <<>>]
NoLocals == [filemap |-> Unbound, end_pos |-> Unbound, tts |-> Unbound, parser |-> Unbound]

------------------------------------------------------------------------------
(* Characters *)

Ord ==
    ("0" :> 48) @@ ("1" :> 49) @@ ("2" :> 50) @@ ("3" :> 51) @@ ("4" :> 52) @@
    ("5" :> 53) @@ ("6" :> 54) @@ ("7" :> 55) @@ ("8" :> 56) @@ ("9" :> 57) @@
    ("A" :> 65) @@ ("B" :> 66) @@ ("C" :> 67) @@ ("D" :> 68) @@ ("E" :> 69) @@
    ("F" :> 70) @@ ("U" :> 85) @@ ("X" :> 88) @@ ("Z" :> 90) @@
    ("a" :> 97) @@ ("b" :> 98) @@ ("c" :> 99) @@ ("d" :> 100) @@ ("e" :> 101) @@
    ("f" :> 102) @@ ("g" :> 103) @@ ("i" :> 105) @@ ("n" :> 110) @@
    ("o" :> 111) @@ ("r" :> 114) @@ ("s" :> 115) @@ ("t" :> 116) @@
    ("u" :> 117) @@ ("x" :> 120) @@ ("z" :> 122) @@
    ("_" :> 95) @@ ("." :> 46) @@ ("+" :> 43) @@ ("-" :> 45) @@
    ("{" :> 123) @@ ("}" :> 125) @@ (" " :> 32) @@ ("'" :> 39) @@
    ("\\" :> 92) @@ ("\"" :> 34) @@
    ("NUL" :> 0) @@ ("TAB" :> 9) @@ ("LF" :> 10) @@ ("CR" :> 13) @@
    ("e-acute" :> 233)

\* The text spelled by a tuple of character names.
Txt(names) == [i \in 1..Len(names) |-> Ord[names[i]]]

\* char::len_utf8
len_utf8(c) == IF c < 128 THEN 1 ELSE IF c < 2048 THEN 2 ELSE IF c < 65536 THEN 3 ELSE 4

RECURSIVE str_len(_)
\* str::len: the length in bytes (summed by halves, to keep the evaluation shallow)
str_len(s) ==
    IF s = <<>> THEN 0
    ELSE IF Len(s) = 1 THEN len_utf8(s[1])
    ELSE LET h == Len(s) \div 2
         IN  str_len(SubSeq(s, 1, h)) + str_len(SubSeq(s, h + 1, Len(s)))

Repeat(c, n) == [i \in 1..n |-> c]

\* Every text of at most n characters of the alphabet.
Strings(alphabet, n) ==
    UNION {[1..k -> alphabet] : k \in 0..n}

IsDecDigit(c) == Ord["0"] <= c /\ c <= Ord["9"]

------------------------------------------------------------------------------
(* Option and the checked arithmetic of core::num *)

None == [some |-> FALSE, val |-> <<>>]
Some(v) == [some |-> TRUE, val |-> v]

LimbBase == 2 ^ 16

\* char::to_digit(radix): Some(value) or None
to_digit(c, radix) ==
    LET val == IF Ord["0"] <= c /\ c <= Ord["9"] THEN c - Ord["0"]
               ELSE IF Ord["a"] <= c /\ c <= Ord["z"] THEN c - Ord["a"] + 10
               ELSE IF Ord["A"] <= c /\ c <= Ord["Z"] THEN c - Ord["A"] + 10
               ELSE -1
    IN  IF val >= 0 /\ val < radix THEN Some(val) ELSE None

RECURSIVE MulLimbs(_, _, _)
\* limbs * m + carry: the limbs of the product, then the carry out as last element
MulLimbs(limbs, m, carry) ==
    IF limbs = <<>> THEN <<carry>>
    ELSE LET t == Head(limbs) * m + carry
         IN  <<t % LimbBase>> \o MulLimbs(Tail(limbs), m, t \div LimbBase)

RECURSIVE AddLimbs(_, _)
AddLimbs(limbs, carry) ==
    IF limbs = <<>> THEN <<carry>>
    ELSE LET t == Head(limbs) + carry
         IN  <<t % LimbBase>> \o AddLimbs(Tail(limbs), t \div LimbBase)

\* uN::checked_mul: None when the product does not fit the width
checked_mul(v, m) ==
    LET r == MulLimbs(v, m, 0)
    IN  IF r[Len(r)] # 0 THEN None ELSE Some(SubSeq(r, 1, Len(v)))

\* uN::checked_add
checked_add(v, x) ==
    LET r == AddLimbs(v, x)
    IN  IF r[Len(r)] # 0 THEN None ELSE Some(SubSeq(r, 1, Len(v)))

Ok(v) == [ok |-> TRUE, val |-> v, err |-> "none"]
Err(e) == [ok |-> FALSE, val |-> <<>>, err |-> e]

\* one turn of the loop of from_str_radix: acc * radix + digit, checked
ParseDigit(c, radix, acc) ==
    LET x == to_digit(c, radix)
    IN  IF ~x.some THEN Err("InvalidDigit")
        ELSE LET m == checked_mul(acc, radix)
             IN  IF ~m.some THEN Err("Overflow")
                 ELSE LET a == checked_add(m.val, x.val)
                      IN  IF ~a.some THEN Err("Overflow") ELSE Ok(a.val)

RECURSIVE ParseDigits(_, _, _)
\* the loop over the digits, left to right, stopping at the first error (the
\* digits are taken by halves, to keep the evaluation shallow)
ParseDigits(digits, radix, acc) ==
    IF digits = <<>> THEN Ok(acc)
    ELSE IF Len(digits) = 1 THEN ParseDigit(digits[1], radix, acc)
    ELSE LET h == Len(digits) \div 2
             left == ParseDigits(SubSeq(digits, 1, h), radix, acc)
         IN  IF ~left.ok THEN left
             ELSE ParseDigits(SubSeq(digits, h + 1, Len(digits)), radix, left.val)

\* uN::from_str_radix for an unsigned type of nlimbs 16-bit limbs
from_str_radix(src, radix, nlimbs) ==
    IF src = <<>> THEN Err("Empty")
    ELSE LET digits == IF Head(src) = Ord["+"] THEN Tail(src) ELSE src
         IN  IF digits = <<>> THEN Err("Empty")
             ELSE ParseDigits(digits, radix, [i \in 1..nlimbs |-> 0])

U64Limbs == 64 \div 16
U32Limbs == 32 \div 16

------------------------------------------------------------------------------
(* Literal values, outcomes and diagnostics *)

Pending == [kind |-> "Pending"]
Fatal(msg) == [kind |-> "Fatal", msg |-> msg, args |-> <<>>]

\* panic!(msg, args): the message with the values it is formatted with
FatalFmt(msg, args) == [kind |-> "Fatal", msg |-> msg, args |-> args]
LitInt(v, ty) == [kind |-> "Int", value |-> v, ty |-> ty]
LitFloat(data, ty) == [kind |-> "Float", data |-> data, ty |-> ty]
LitFloatUnsuffixed(data) == [kind |-> "FloatUnsuffixed", data |-> data]

\* A diagnostic: the message with its argument left out, and the argument.
Diag(msg, arg) == [msg |-> msg, arg |-> arg]

Outcome(r, d) == [ret |-> r, diags |-> d]

\* the filter left out: the text is taken with its underscores
strip_underscores_kept(s) == s

\* s.chars().filter(|&c| c != '_').collect::<String>()
strip_underscores(s) == SelectSeq(s, LAMBDA c : c # Ord["_"])

AllDecDigits(s) == \A i \in 1..Len(s) : Ord["0"] <= s[i] /\ s[i] <= Ord["9"]

\* s.len() > 2 for s.len() > 1
looks_like_width_suffix_longer(first_chars, s) ==
    /\ str_len(s) > 2
    /\ s[1] \in first_chars
    /\ AllDecDigits(Tail(s))

\* check if `s` looks like i32 or u1234 etc.
looks_like_width_suffix(first_chars, s) ==
    /\ str_len(s) > 1
    /\ s[1] \in first_chars
    /\ AllDecDigits(Tail(s))

------------------------------------------------------------------------------
(* Float literals *)

\* both messages for a suffix that looks like a width
filtered_float_lit_both_messages(data, suffix) ==
    IF ~suffix.some THEN Outcome(LitFloatUnsuffixed(data), <<>>)
    ELSE LET suf == suffix.val
         IN  IF suf = Txt(<<"f", "3", "2">>) THEN Outcome(LitFloat(data, "F32"), <<>>)
             ELSE IF suf = Txt(<<"f", "6", "4">>) THEN Outcome(LitFloat(data, "F64"), <<>>)
             ELSE IF str_len(suf) >= 2 /\ looks_like_width_suffix({Ord["f"]}, suf)
                  THEN Outcome(LitFloatUnsuffixed(data),
                               <<Diag("invalid width {} for float literal", Tail(suf)),
                                 Diag("invalid suffix {} for float literal", suf)>>)
                  ELSE Outcome(LitFloatUnsuffixed(data),
                               <<Diag("invalid suffix {} for float literal", suf)>>)

filtered_float_lit(data, suffix) ==
    IF ~suffix.some THEN Outcome(LitFloatUnsuffixed(data), <<>>)
    ELSE LET suf == suffix.val
         IN  IF suf = Txt(<<"f", "3", "2">>) THEN Outcome(LitFloat(data, "F32"), <<>>)
             ELSE IF suf = Txt(<<"f", "6", "4">>) THEN Outcome(LitFloat(data, "F64"), <<>>)
             ELSE IF str_len(suf) >= 2 /\ looks_like_width_suffix({Ord["f"]}, suf)
                  THEN Outcome(LitFloatUnsuffixed(data),
                               <<Diag("invalid width {} for float literal", Tail(suf))>>)
                  ELSE Outcome(LitFloatUnsuffixed(data),
                               <<Diag("invalid suffix {} for float literal", suf)>>)

\* the text is interned with its underscores
float_lit_unfiltered(s, suffix) ==
    filtered_float_lit(s, suffix)

float_lit(s, suffix) ==
    filtered_float_lit(strip_underscores(s), suffix)

------------------------------------------------------------------------------
(* Integer literals *)

\* the radix chosen from the first two characters of the stripped text
detect_base(s) ==
    IF s[1] = Ord["0"] /\ str_len(s) > 1
    THEN IF s[2] = Ord["x"] THEN 16
         ELSE IF s[2] = Ord["o"] THEN 8
         ELSE IF s[2] = Ord["b"] THEN 2
         ELSE 10
    ELSE 10

\* the arm of base 2 left out
radix_float_diags_no_binary(base) ==
    IF base = 16 THEN <<Diag("hexadecimal float literal is not supported", <<>>)>>
    ELSE IF base = 8 THEN <<Diag("octal float literal is not supported", <<>>)>>
    ELSE <<>>

\* the diagnostics of the float path for a literal with a radix prefix
radix_float_diags(base) ==
    IF base = 16 THEN <<Diag("hexadecimal float literal is not supported", <<>>)>>
    ELSE IF base = 8 THEN <<Diag("octal float literal is not supported", <<>>)>>
    ELSE IF base = 2 THEN <<Diag("binary float literal is not supported", <<>>)>>
    ELSE <<>>

\* only i, not u, is looked for before the digits
unknown_int_suffix_signed_only(suf) ==
    IF looks_like_width_suffix({Ord["i"]}, suf)
    THEN <<Diag("invalid width {} for integer literal", Tail(suf))>>
    ELSE <<Diag("invalid suffix {} for numeric literal", suf)>>

\* the last arm of the match: i<digits> and u<digits> look like widths
unknown_int_suffix(suf) ==
    IF looks_like_width_suffix({Ord["i"], Ord["u"]}, suf)
    THEN <<Diag("invalid width {} for integer literal", Tail(suf))>>
    ELSE <<Diag("invalid suffix {} for numeric literal", suf)>>

\* ty = match &**suf { ... }: the type of a suffix and what the match emits
suffix_ty(suf) ==
    IF      suf = Txt(<<"i", "s", "i", "z", "e">>) THEN [ty |-> "Is",  diags |-> <<>>]
    ELSE IF suf = Txt(<<"i", "8">>)                THEN [ty |-> "I8",  diags |-> <<>>]
    ELSE IF suf = Txt(<<"i", "1", "6">>)           THEN [ty |-> "I16", diags |-> <<>>]
    ELSE IF suf = Txt(<<"i", "3", "2">>)           THEN [ty |-> "I32", diags |-> <<>>]
    ELSE IF suf = Txt(<<"i", "6", "4">>)           THEN [ty |-> "I64", diags |-> <<>>]
    ELSE IF suf = Txt(<<"u", "s", "i", "z", "e">>) THEN [ty |-> "Us",  diags |-> <<>>]
    ELSE IF suf = Txt(<<"u", "8">>)                THEN [ty |-> "U8",  diags |-> <<>>]
    ELSE IF suf = Txt(<<"u", "1", "6">>)           THEN [ty |-> "U16", diags |-> <<>>]
    ELSE IF suf = Txt(<<"u", "3", "2">>)           THEN [ty |-> "U32", diags |-> <<>>]
    ELSE IF suf = Txt(<<"u", "6", "4">>)           THEN [ty |-> "U64", diags |-> <<>>]
    ELSE [ty |-> "Unsuffixed", diags |-> unknown_int_suffix(suf)]

\* a digit equal to the base is let through
already_errored_above_base(s, base) ==
    /\ base < 10
    /\ \E i \in 1..Len(s) :
          LET d == to_digit(s[i], 10) IN d.some /\ d.val > base

\* base < 10 && s.chars().any(|c| c.to_digit(10).map_or(false, |d| d >= base))
already_errored(s, base) ==
    /\ base < 10
    /\ \E i \in 1..Len(s) :
          LET d == to_digit(s[i], 10) IN d.some /\ d.val >= base

\* match u64::from_str_radix(s, base) { Ok(r) => ..., Err(_) => ... }
parse_magnitude(s, base, ty) ==
    LET r == from_str_radix(s, base, U64Limbs)
    IN  IF r.ok THEN Outcome(LitInt(r.val, ty), <<>>)
        ELSE Outcome(LitInt([i \in 1..U64Limbs |-> 0], ty),
                     IF already_errored(s, base) THEN <<>>
                     ELSE <<Diag("int literal is too large", <<>>)>>)

integer_lit(text, suffix) ==
    LET s2 == strip_underscores(text)
    IN  IF s2 = <<>> THEN Outcome(Fatal("char_at: index out of bounds"), <<>>)
        ELSE
        LET base == detect_base(s2)
        IN  IF suffix.some /\ looks_like_width_suffix({Ord["f"]}, suffix.val)
            THEN LET d == radix_float_diags(base)
                     f == filtered_float_lit(s2, suffix)
                 IN  Outcome(f.ret, d \o f.diags)
            ELSE
            LET s == IF base # 10 THEN SubSeq(s2, 3, Len(s2)) ELSE s2
            IN  IF suffix.some /\ suffix.val = <<>>
                THEN Outcome(Fatal("found empty literal suffix in Some"), <<>>)
                ELSE
                LET t == IF suffix.some THEN suffix_ty(suffix.val)
                         ELSE [ty |-> "Unsuffixed", diags |-> <<>>]
                    m == parse_magnitude(s, base, t.ty)
                IN  Outcome(m.ret, t.diags \o m.diags)

------------------------------------------------------------------------------
(* The calls of the numeric decoders *)

MaxIntLen == 3
MaxFloatLen == 3

\* the texts of type suffixes a call is made with
SuffixTexts ==
    { Txt(<<"i", "s", "i", "z", "e">>), Txt(<<"i", "8">>), Txt(<<"i", "1", "6">>),
      Txt(<<"i", "3", "2">>), Txt(<<"i", "6", "4">>),
      Txt(<<"u", "s", "i", "z", "e">>), Txt(<<"u", "8">>), Txt(<<"u", "1", "6">>),
      Txt(<<"u", "3", "2">>), Txt(<<"u", "6", "4">>),
      Txt(<<"f", "3", "2">>), Txt(<<"f", "6", "4">>), Txt(<<"f", "9">>),
      Txt(<<"i", "9">>), Txt(<<"u", "1", "2", "8">>),
      Txt(<<"i">>), Txt(<<"u">>), Txt(<<"f">>),
      Txt(<<"f", "a">>), Txt(<<"i", "a">>), Txt(<<"x">>), Txt(<<"e-acute">>),
      <<>> }

Suffixes == {None} \cup {Some(t) : t \in SuffixTexts}

\* The lexer enters scan_number on a decimal digit: a numeric text starts with one.
IntFirst == {Ord["0"], Ord["1"], Ord["9"]}
IntAlphabet == {Ord[c] : c \in {"0", "1", "2", "9", "a", "F", "x", "o", "b", "_"}}

ShortIntTexts == {<<c>> \o t : c \in IntFirst, t \in Strings(IntAlphabet, MaxIntLen - 1)}

\* u64::MAX and u64::MAX + 1 in decimal
U64MaxDecimal ==
    Txt(<<"1", "8", "4", "4", "6", "7", "4", "4", "0", "7",
          "3", "7", "0", "9", "5", "5", "1", "6", "1", "5">>)
U64MaxDecimalPlus1 ==
    Txt(<<"1", "8", "4", "4", "6", "7", "4", "4", "0", "7",
          "3", "7", "0", "9", "5", "5", "1", "6", "1", "6">>)

\* the run lengths around the number of digits of u64::MAX in base 16, 10, 8 and 2
RunLens == {15, 16, 17, 19, 20, 21, 22, 63, 64, 65}

\* texts whose magnitude is at and around u64::MAX: a prefix, at most one leading
\* digit and a run of one digit
BoundaryIntTexts ==
    {U64MaxDecimal, U64MaxDecimalPlus1} \cup
    { p \o h \o Repeat(d, k) :
        p \in {<<>>, Txt(<<"0", "x">>), Txt(<<"0", "o">>), Txt(<<"0", "b">>)},
        h \in {<<>>, Txt(<<"1">>), Txt(<<"2">>), Txt(<<"9">>)},
        d \in {Ord["0"], Ord["1"], Ord["7"], Ord["9"], Ord["f"]},
        k \in RunLens }

IntTexts == ShortIntTexts \cup BoundaryIntTexts

FloatAlphabet == {Ord[c] : c \in {"1", "9", ".", "e", "_"}}
FloatFirst == {Ord["1"], Ord["9"]}

\* texts of floats, with two of a magnitude beyond every float type
FloatTexts ==
    {<<c>> \o t : c \in FloatFirst, t \in Strings(FloatAlphabet, MaxFloatLen - 1)}
    \cup {Repeat(Ord["9"], 40) \o Txt(<<".", "5">>),
          Txt(<<"1", "_", "e", "9", "9", "9", "9">>)}

Call(fn, lit, suffix) == [fn |-> fn, lit |-> lit, suffix |-> suffix]

NumericCalls ==
    {Call("integer_lit", t, suf) : t \in IntTexts, suf \in Suffixes}
    \cup {Call("float_lit", t, suf) : t \in FloatTexts, suf \in Suffixes}

InitNumeric ==
    /\ call \in NumericCalls
    /\ ret = Pending
    /\ diags = <<>>
    /\ pc = "call"
    /\ sess = with_span_handler
    /\ local = NoLocals

\* a call of integer_lit runs to its return or to its abort
IntegerLit ==
    /\ pc = "call"
    /\ call.fn = "integer_lit"
    /\ LET out == integer_lit(call.lit, call.suffix)
       IN  /\ ret' = out.ret
           /\ diags' = out.diags
    /\ pc' = "done"
    /\ UNCHANGED <<call, sess, local>>

FloatLit ==
    /\ pc = "call"
    /\ call.fn = "float_lit"
    /\ LET out == float_lit(call.lit, call.suffix)
       IN  /\ ret' = out.ret
           /\ diags' = out.diags
    /\ pc' = "done"
    /\ UNCHANGED <<call, sess, local>>

NextNumeric == IntegerLit \/ FloatLit

SpecNumeric == InitNumeric /\ [][NextNumeric]_vars

------------------------------------------------------------------------------
(* What a numeric text denotes, stated without the decoder *)

HexDigits == Txt(<<"0", "1", "2", "3", "4", "5", "6", "7", "8", "9",
                   "a", "b", "c", "d", "e", "f">>)
HexDigitsUpper == Txt(<<"0", "1", "2", "3", "4", "5", "6", "7", "8", "9",
                        "A", "B", "C", "D", "E", "F">>)

\* c is a digit of the radix
IsDigitOf(c, radix) ==
    \E i \in 1..radix : HexDigits[i] = c \/ HexDigitsUpper[i] = c

DigitValueOf(c) ==
    (CHOOSE i \in 1..16 : HexDigits[i] = c \/ HexDigitsUpper[i] = c) - 1

RECURSIVE Normal(_)
\* a number of any size, as limbs without leading zero limbs
Normal(limbs) ==
    IF limbs # <<>> /\ limbs[Len(limbs)] = 0
    THEN Normal(SubSeq(limbs, 1, Len(limbs) - 1))
    ELSE limbs

RECURSIVE ValueOf(_, _, _)
\* the number hi * radix^n + (the number the n digits denote in the radix), of any size
ValueOf(hi, digits, radix) ==
    IF digits = <<>> THEN Normal(hi)
    ELSE IF Len(digits) = 1
    THEN Normal(AddLimbs(MulLimbs(hi, radix, 0), DigitValueOf(digits[1])))
    ELSE LET h == Len(digits) \div 2
             left == ValueOf(hi, SubSeq(digits, 1, h), radix)
         IN  IF Len(left) >= 0
             THEN ValueOf(left, SubSeq(digits, h + 1, Len(digits)), radix)
             ELSE <<>>

\* the digits denote a number in the radix
Denotes(digits, radix) ==
    digits # <<>> /\ \A i \in 1..Len(digits) : IsDigitOf(digits[i], radix)

\* ... and the number is at most 2^64 - 1
FitsU64(digits, radix) ==
    Denotes(digits, radix) /\ Len(ValueOf(<<>>, digits, radix)) <= U64Limbs

\* a number that fits, as the limbs of a u64
AsU64(v) == [i \in 1..U64Limbs |-> IF i <= Len(v) THEN v[i] ELSE 0]

Stripped(text) == SelectSeq(text, LAMBDA c : c # Ord["_"])

\* the radix of a stripped text: 16/8/2 when it has more than one character and
\* starts with 0x/0o/0b, else 10
RadixOf(t) ==
    IF Len(t) > 1 /\ SubSeq(t, 1, 2) = Txt(<<"0", "x">>) THEN 16
    ELSE IF Len(t) > 1 /\ SubSeq(t, 1, 2) = Txt(<<"0", "o">>) THEN 8
    ELSE IF Len(t) > 1 /\ SubSeq(t, 1, 2) = Txt(<<"0", "b">>) THEN 2
    ELSE 10

\* the digits after the prefix
DigitsOf(t) == IF RadixOf(t) = 10 THEN t ELSE SubSeq(t, 3, Len(t))

\* the ten integer suffixes and their types
IntSuffixType ==
    { <<Txt(<<"i", "s", "i", "z", "e">>), "Is">>, <<Txt(<<"i", "8">>), "I8">>,
      <<Txt(<<"i", "1", "6">>), "I16">>, <<Txt(<<"i", "3", "2">>), "I32">>,
      <<Txt(<<"i", "6", "4">>), "I64">>,
      <<Txt(<<"u", "s", "i", "z", "e">>), "Us">>, <<Txt(<<"u", "8">>), "U8">>,
      <<Txt(<<"u", "1", "6">>), "U16">>, <<Txt(<<"u", "3", "2">>), "U32">>,
      <<Txt(<<"u", "6", "4">>), "U64">> }

ValidIntSuffix(suffix) == suffix.some /\ \E p \in IntSuffixType : p[1] = suffix.val

\* the type the suffix names, Unsuffixed when it names none
TypeOf(suffix) ==
    IF ValidIntSuffix(suffix)
    THEN (CHOOSE p \in IntSuffixType : p[1] = suffix.val)[2]
    ELSE "Unsuffixed"

\* the suffix is one of the letters followed by one or more decimal digits
WidthShaped(letters, suf) ==
    /\ Len(suf) >= 2
    /\ suf[1] \in letters
    /\ \A i \in 2..Len(suf) : suf[i] \in {Ord[c] : c \in {"0", "1", "2", "3", "4",
                                                        "5", "6", "7", "8", "9"}}

Emitted(msg) == \E i \in 1..Len(diags) : diags[i].msg = msg

TooLarge == "int literal is too large"
NotSupported == {"hexadecimal float literal is not supported",
                 "octal float literal is not supported",
                 "binary float literal is not supported"}
WidthMsgs == {"invalid width {} for integer literal", "invalid width {} for float literal"}
GenericMsgs == {"invalid suffix {} for numeric literal", "invalid suffix {} for float literal"}

Returned(fn) == pc = "done" /\ call.fn = fn

------------------------------------------------------------------------------
(* C1 *)

\* C1: integer_lit with no suffix or one of the ten integer suffixes, on a text whose
\* digits after the radix prefix (underscores removed, radix 16/8/2 for a stripped
\* text of more than one character starting 0x/0o/0b, else 10) denote v <= 2^64 - 1,
\* returns the integer literal (v, type of the suffix or Unsuffixed) and emits nothing.
C1_IntegerValue ==
    (/\ Returned("integer_lit")
     /\ ~call.suffix.some \/ ValidIntSuffix(call.suffix)
     /\ FitsU64(DigitsOf(Stripped(call.lit)), RadixOf(Stripped(call.lit))))
    => LET t == Stripped(call.lit)
       IN  /\ ret = LitInt(AsU64(ValueOf(<<>>, DigitsOf(t), RadixOf(t))), TypeOf(call.suffix))
           /\ diags = <<>>

\* 0x_ffff_ffff_ffff_ffff... : sixteen f after 0x, suffix u64, decoded to 2^64 - 1
C1_Witness ==
    /\ Returned("integer_lit")
    /\ call.lit = Txt(<<"0", "x">>) \o Repeat(Ord["f"], 16)
    /\ call.suffix = Some(Txt(<<"u", "6", "4">>))
    /\ ret = LitInt(<<65535, 65535, 65535, 65535>>, "U64")
    /\ diags = <<>>

------------------------------------------------------------------------------
(* C2 *)

\* u64::from_str_radix takes the digits, after an optional +, when they denote a
\* number of at most 2^64 - 1
Parses(digits, radix) ==
    FitsU64(IF digits # <<>> /\ digits[1] = Ord["+"]
            THEN SubSeq(digits, 2, Len(digits)) ELSE digits, radix)

\* the text holds a decimal digit that is no digit of the radix
HasDigitInvalidFor(digits, radix) ==
    \E i \in 1..Len(digits) :
        /\ digits[i] \in {Ord[c] : c \in {"0", "1", "2", "3", "4", "5", "6", "7", "8", "9"}}
        /\ ~IsDigitOf(digits[i], radix)

\* the call parses a magnitude: the suffix is neither float-width shaped nor empty
OnIntegerPath ==
    /\ Returned("integer_lit")
    /\ ~(call.suffix.some /\ WidthShaped({Ord["f"]}, call.suffix.val))
    /\ ~(call.suffix.some /\ call.suffix.val = <<>>)

\* C2: in integer_lit, when the digit text does not parse as a u64 in the detected
\* base, the value returned is 0 with the type chosen from the suffix, and "int
\* literal is too large" is emitted exactly when it is not the case that the base is
\* not 10 and the digit text holds a (decimal) digit invalid for the base.
C2_ParseFailure ==
    LET t == Stripped(call.lit)
    IN  (OnIntegerPath /\ ~Parses(DigitsOf(t), RadixOf(t)))
        => /\ ret = LitInt(<<0, 0, 0, 0>>, TypeOf(call.suffix))
           /\ Emitted(TooLarge)
                <=> ~(RadixOf(t) # 10 /\ HasDigitInvalidFor(DigitsOf(t), RadixOf(t)))

\* 0x1 and sixteen 0 is 2^64: value 0 and the diagnostic
C2_Witness ==
    /\ Returned("integer_lit")
    /\ call.lit = Txt(<<"0", "x", "1">>) \o Repeat(Ord["0"], 16)
    /\ call.suffix = Some(Txt(<<"i", "3", "2">>))
    /\ ret = LitInt(<<0, 0, 0, 0>>, "I32")
    /\ diags = <<Diag(TooLarge, <<>>)>>

\* 0b2: the digit 2 is invalid for base 2, value 0 and no diagnostic
C2_WitnessSuppressed ==
    /\ Returned("integer_lit")
    /\ call.lit = Txt(<<"0", "b", "2">>)
    /\ ~call.suffix.some
    /\ ret = LitInt(<<0, 0, 0, 0>>, "Unsuffixed")
    /\ diags = <<>>

------------------------------------------------------------------------------
(* C3 *)

\* the suffix diagnostic integer_lit owes an unknown suffix
IntSuffixDiag(suf) ==
    IF WidthShaped({Ord["i"], Ord["u"]}, suf)
    THEN Diag("invalid width {} for integer literal", SubSeq(suf, 2, Len(suf)))
    ELSE Diag("invalid suffix {} for numeric literal", suf)

\* C3: integer_lit with a non-empty suffix that is none of the ten integer suffixes
\* and is not float-width shaped emits exactly one suffix diagnostic, "invalid width"
\* for i or u followed by digits and "invalid suffix" otherwise, and then decodes the
\* magnitude as without a suffix: type Unsuffixed, the same value, the same further
\* diagnostics.
C3_UnknownSuffix ==
    (/\ Returned("integer_lit")
     /\ call.suffix.some
     /\ call.suffix.val # <<>>
     /\ ~ValidIntSuffix(call.suffix)
     /\ ~WidthShaped({Ord["f"]}, call.suffix.val))
    => LET plain == integer_lit(call.lit, None)
       IN  /\ ret.kind = "Int"
           /\ ret.ty = "Unsuffixed"
           /\ ret = plain.ret
           /\ diags = <<IntSuffixDiag(call.suffix.val)>> \o plain.diags
           /\ Cardinality({i \in 1..Len(diags) : diags[i].msg \in WidthMsgs \cup GenericMsgs}) = 1

\* 0x1F with the suffix u128: the width diagnostic, and 31 unsuffixed
C3_Witness ==
    /\ Returned("integer_lit")
    /\ call.lit = Txt(<<"0", "x", "F">>)
    /\ call.suffix = Some(Txt(<<"u", "1", "2", "8">>))
    /\ ret = LitInt(<<15, 0, 0, 0>>, "Unsuffixed")
    /\ diags = <<Diag("invalid width {} for integer literal", Txt(<<"1", "2", "8">>))>>

------------------------------------------------------------------------------
(* C4 *)

\* the type of a float literal with the suffix
FloatTypeOf(suf) ==
    IF suf = Txt(<<"f", "3", "2">>) THEN "F32"
    ELSE IF suf = Txt(<<"f", "6", "4">>) THEN "F64"
    ELSE "Unsuffixed"

\* the float literal of the text and the type
FloatOf(data, ty) ==
    IF ty = "Unsuffixed" THEN LitFloatUnsuffixed(data) ELSE LitFloat(data, ty)

NotSupportedFor(radix) ==
    IF radix = 16 THEN {"hexadecimal float literal is not supported"}
    ELSE IF radix = 8 THEN {"octal float literal is not supported"}
    ELSE IF radix = 2 THEN {"binary float literal is not supported"}
    ELSE {}

\* C4: integer_lit with a suffix f followed by one or more digits returns a float
\* literal: its text is the whole stripped literal, its type F32/F64 for f32/f64 and
\* unsuffixed otherwise; the "... float literal is not supported" diagnostic of the
\* radix is emitted if and only if the radix is 16, 8 or 2; "int literal is too large"
\* is never emitted.
C4_FloatSuffix ==
    (/\ Returned("integer_lit")
     /\ call.suffix.some
     /\ WidthShaped({Ord["f"]}, call.suffix.val))
    => LET t == Stripped(call.lit)
       IN  /\ ret = FloatOf(t, FloatTypeOf(call.suffix.val))
           /\ {diags[i].msg : i \in 1..Len(diags)} \cap NotSupported = NotSupportedFor(RadixOf(t))
           /\ ~Emitted(TooLarge)

\* 0x_1 and sixteen 0 with the suffix f32: a float with the text 0x1000..., and the
\* hexadecimal diagnostic alone
C4_Witness ==
    /\ Returned("integer_lit")
    /\ call.lit = Txt(<<"0", "x", "1">>) \o Repeat(Ord["0"], 16)
    /\ call.suffix = Some(Txt(<<"f", "3", "2">>))
    /\ ret = LitFloat(call.lit, "F32")
    /\ diags = <<Diag("hexadecimal float literal is not supported", <<>>)>>

------------------------------------------------------------------------------
(* C5 *)

\* C5: float_lit returns a float literal whose text is the input without its
\* underscores; F32 for the suffix f32, F64 for f64, unsuffixed for no suffix, these
\* three without a diagnostic; for any other suffix exactly one diagnostic, a suffix
\* diagnostic, and the unsuffixed float of the same text.  No text causes a range
\* diagnostic.
C5_FloatLit ==
    Returned("float_lit")
    => LET t == Stripped(call.lit)
       IN  /\ ret.kind \in {"Float", "FloatUnsuffixed"}
           /\ ret.data = t
           /\ ~Emitted(TooLarge)
           /\ IF ~call.suffix.some
              THEN ret = LitFloatUnsuffixed(t) /\ diags = <<>>
              ELSE IF FloatTypeOf(call.suffix.val) # "Unsuffixed"
              THEN ret = LitFloat(t, FloatTypeOf(call.suffix.val)) /\ diags = <<>>
              ELSE /\ ret = LitFloatUnsuffixed(t)
                   /\ Len(diags) = 1
                   /\ diags[1].msg \in WidthMsgs \cup GenericMsgs

\* 1_e9999 with the suffix f9: the text 1e9999 unsuffixed and the width diagnostic
C5_Witness ==
    /\ Returned("float_lit")
    /\ call.lit = Txt(<<"1", "_", "e", "9", "9", "9", "9">>)
    /\ call.suffix = Some(Txt(<<"f", "9">>))
    /\ ret = LitFloatUnsuffixed(Txt(<<"1", "e", "9", "9", "9", "9">>))
    /\ diags = <<Diag("invalid width {} for float literal", Txt(<<"9">>))>>

------------------------------------------------------------------------------
(* C6 *)

\* the suffixes a decoder takes without a suffix diagnostic
AcceptedBy(fn, suf) ==
    \/ FloatTypeOf(suf) # "Unsuffixed"
    \/ fn = "integer_lit" /\ ValidIntSuffix(Some(suf))

SuffixMsgs == {diags[i].msg : i \in 1..Len(diags)} \cap (WidthMsgs \cup GenericMsgs)

\* C6 as stated: for integer_lit and for float_lit, a suffix that is not accepted has
\* the "invalid width" diagnostic when it is f, i or u followed by one or more digits
\* and the "invalid suffix" diagnostic otherwise.
C6_AsStated ==
    (/\ pc = "done"
     /\ ret.kind # "Fatal"
     /\ call.suffix.some
     /\ ~AcceptedBy(call.fn, call.suffix.val))
    => IF WidthShaped({Ord["f"], Ord["i"], Ord["u"]}, call.suffix.val)
       THEN SuffixMsgs \subseteq WidthMsgs /\ SuffixMsgs # {}
       ELSE SuffixMsgs \subseteq GenericMsgs /\ SuffixMsgs # {}

\* the letters whose width shape a decoder recognises
WidthLetters(fn) ==
    IF fn = "integer_lit" THEN {Ord["f"], Ord["i"], Ord["u"]} ELSE {Ord["f"]}

\* C6, amended: a non-empty suffix that the decoder does not accept has exactly one
\* suffix diagnostic; in integer_lit it is "invalid width" when the suffix is f, i or
\* u followed by one or more digits; in float_lit it is "invalid width" only when the
\* suffix is f followed by one or more digits (i or u followed by digits has the
\* "invalid suffix" diagnostic); every other suffix has "invalid suffix".
C6_SuffixPhrasing ==
    (/\ pc = "done"
     /\ call.suffix.some
     /\ call.suffix.val # <<>>
     /\ ~AcceptedBy(call.fn, call.suffix.val))
    => /\ Cardinality({i \in 1..Len(diags) : diags[i].msg \in WidthMsgs \cup GenericMsgs}) = 1
       /\ IF WidthShaped(WidthLetters(call.fn), call.suffix.val)
          THEN SuffixMsgs \subseteq WidthMsgs
          ELSE SuffixMsgs \subseteq GenericMsgs

\* float_lit with the suffix i9: the "invalid suffix" diagnostic
C6_Witness ==
    /\ Returned("float_lit")
    /\ call.suffix = Some(Txt(<<"i", "9">>))
    /\ diags = <<Diag("invalid suffix {} for float literal", Txt(<<"i", "9">>))>>

------------------------------------------------------------------------------
(* Bytes of a text *)

\* the UTF-8 encoding of a char
encode_utf8(c) ==
    IF c < 128 THEN <<c>>
    ELSE IF c < 2048 THEN <<192 + (c \div 64), 128 + (c % 64)>>
    ELSE IF c < 65536
    THEN <<224 + (c \div 4096), 128 + ((c \div 64) % 64), 128 + (c % 64)>>
    ELSE <<240 + (c \div 262144), 128 + ((c \div 4096) % 64),
           128 + ((c \div 64) % 64), 128 + (c % 64)>>

RECURSIVE as_bytes(_)
\* str::as_bytes (joined by halves, to keep the evaluation shallow)
as_bytes(s) ==
    IF s = <<>> THEN <<>>
    ELSE IF Len(s) = 1 THEN encode_utf8(s[1])
    ELSE LET h == Len(s) \div 2
         IN  as_bytes(SubSeq(s, 1, h)) \o as_bytes(SubSeq(s, h + 1, Len(s)))

\* s.as_bytes()[k], k counted from 0: None stands for the panic of an index out of
\* bounds
byte_at(s, k) ==
    LET bytes == as_bytes(s)
    IN  IF k < Len(bytes) THEN Some(bytes[k + 1]) ELSE None

\* the byte offset of the i-th char (of the end of the text for i = Len(s) + 1)
byte_offset(s, i) == str_len(SubSeq(s, 1, i - 1))

\* &s[a..b] with byte offsets: None stands for the panic of a slice out of bounds or
\* off a char boundary
byte_slice(s, a, b) ==
    LET starts == {i \in 1..Len(s) + 1 : byte_offset(s, i) = a}
        ends == {i \in 1..Len(s) + 1 : byte_offset(s, i) = b}
    IN  IF a <= b /\ starts # {} /\ ends # {}
        THEN Some(SubSeq(s, CHOOSE i \in starts : TRUE, (CHOOSE i \in ends : TRUE) - 1))
        ELSE None

\* s.find(c): the byte offset of the first c
find(s, c) ==
    LET at == {i \in 1..Len(s) : s[i] = c}
    IN  IF at = {} THEN None
        ELSE Some(byte_offset(s, CHOOSE i \in at : \A j \in at : i <= j))

------------------------------------------------------------------------------
(* Character literals *)

CharRet(c, n) == [kind |-> "Char", ch |-> c, len |-> n]
NoChar == [kind |-> "None"]

\* char::from_u32 of a u32 in limbs: None for a surrogate and above 0x10FFFF
from_u32(limbs) ==
    IF limbs[2] > 16 THEN None
    ELSE LET v == (limbs[2] * LimbBase) + limbs[1]
         IN  IF 55296 <= v /\ v <= 57343 THEN None ELSE Some(v)

\* \0 taken for the digit
simple_escape_zero_digit(c) ==
    IF      c = Ord["\""] THEN Some(Ord["\""])
    ELSE IF c = Ord["n"]  THEN Some(Ord["LF"])
    ELSE IF c = Ord["r"]  THEN Some(Ord["CR"])
    ELSE IF c = Ord["t"]  THEN Some(Ord["TAB"])
    ELSE IF c = Ord["\\"] THEN Some(Ord["\\"])
    ELSE IF c = Ord["'"]  THEN Some(Ord["'"])
    ELSE IF c = Ord["0"]  THEN Some(Ord["0"])
    ELSE None

\* the first match of char_lit, on the char after the backslash
simple_escape(c) ==
    IF      c = Ord["\""] THEN Some(Ord["\""])
    ELSE IF c = Ord["n"]  THEN Some(Ord["LF"])
    ELSE IF c = Ord["r"]  THEN Some(Ord["CR"])
    ELSE IF c = Ord["t"]  THEN Some(Ord["TAB"])
    ELSE IF c = Ord["\\"] THEN Some(Ord["\\"])
    ELSE IF c = Ord["'"]  THEN Some(Ord["'"])
    ELSE IF c = Ord["0"]  THEN Some(Ord["NUL"])
    ELSE None

\* u32::from_str_radix(digits, 16).ok().and_then(char::from_u32).map(|x| (x, n))
hex_char(digits, n) ==
    LET r == from_str_radix(digits, 16, U32Limbs)
    IN  IF ~r.ok THEN NoChar
        ELSE LET c == from_u32(r.val)
             IN  IF ~c.some THEN NoChar ELSE CharRet(c.val, n)

\* fn esc(len, lit)
esc(len, lit) ==
    LET sl == byte_slice(lit, 2, len)
    IN  IF ~sl.some THEN Fatal("byte index out of the text or off a char boundary")
        ELSE hex_char(sl.val, len)

\* the offset of the closing brace taken for the length
braced_len_to_brace(subslice) == Len(subslice) + 3

\* subslice.chars().count() as isize + 4
braced_len(subslice) == Len(subslice) + 4

\* backslash-u is decoded only with braces
unicode_escape_braced_only(lit) ==
    LET b == byte_at(lit, 2)
    IN  IF ~b.some THEN Fatal("index out of bounds")
        ELSE IF b.val = Ord["{"]
        THEN LET idx == find(lit, Ord["}"])
             IN  IF ~idx.some
                 THEN FatalFmt("lexer should have rejected a bad character escape {}", <<lit>>)
                 ELSE LET subslice == byte_slice(lit, 3, idx.val)
                      IN  hex_char(subslice.val, braced_len(subslice.val))
        ELSE NoChar

\* the closure unicode_escape
unicode_escape(lit) ==
    LET b == byte_at(lit, 2)
    IN  IF ~b.some THEN Fatal("index out of bounds")
        ELSE IF b.val = Ord["{"]
        THEN LET idx == find(lit, Ord["}"])
             IN  IF ~idx.some
                 THEN FatalFmt("lexer should have rejected a bad character escape {}", <<lit>>)
                 ELSE LET subslice == byte_slice(lit, 3, idx.val)
                      IN  hex_char(subslice.val, braced_len(subslice.val))
        ELSE esc(6, lit)

\* the second match of char_lit, on the byte after the backslash, and its expect
numeric_escape(lit) ==
    LET b == byte_at(lit, 1).val
        r == IF b = Ord["x"] \/ b = Ord["X"] THEN esc(4, lit)
             ELSE IF b = Ord["u"] THEN unicode_escape(lit)
             ELSE IF b = Ord["U"] THEN esc(10, lit)
             ELSE NoChar
    IN  IF r.kind = "None"
        THEN FatalFmt("lexer should have rejected a bad character escape {}", <<lit>>)
        ELSE r

char_lit(lit) ==
    IF Len(lit) = 1 /\ lit[1] # Ord["\\"] THEN CharRet(lit[1], 1)
    ELSE IF Len(lit) >= 2 /\ lit[1] = Ord["\\"]
    THEN LET c == simple_escape(lit[2])
         IN  IF c.some THEN CharRet(c.val, 2) ELSE numeric_escape(lit)
    ELSE FatalFmt("lexer accepted invalid char escape {}", <<lit>>)

------------------------------------------------------------------------------
(* String literals *)

StrRet(str) == [kind |-> "Str", str |-> str]

Whitespace == {Ord[" "], Ord["LF"], Ord["CR"], Ord["TAB"]}

\* tabs are not eaten
eat_no_tab(lit, k) ==
    LET stops == {j \in k..Len(lit) + 1 :
                     j = Len(lit) + 1 \/ lit[j] \notin {Ord[" "], Ord["LF"], Ord["CR"]}}
    IN  CHOOSE j \in stops : \A i \in stops : j <= i

\* fn eat: from the k-th char, the place of the first char that is not whitespace
eat(lit, k) ==
    LET stops == {j \in k..Len(lit) + 1 : j = Len(lit) + 1 \/ lit[j] \notin Whitespace}
    IN  CHOOSE j \in stops : \A i \in stops : j <= i

\* the CR of a pair is pushed as it is
push_crlf_as_cr(res) == res \o <<Ord["CR"]>>

\* res.push('\n') for a CR LF pair
push_crlf(res) == res \o <<Ord["LF"]>>

\* the closure error, at the byte offset i of the k-th char
error(lit, k) ==
    FatalFmt("lexer should have rejected {} at {}", <<lit, byte_offset(lit, k)>>)

RECURSIVE str_loop(_, _, _)
RECURSIVE push_char_lit(_, _, _, _)
\* the char after the escape is skipped as well
push_char_lit_skips_one(lit, k, res, c) ==
    IF c.kind = "Fatal" THEN c ELSE str_loop(lit, k + c.len + 1, res \o <<c.ch>>)

\* the escape at the k-th char decoded by char_lit as c: its panic is the panic of
\* str_lit, else c.len - 1 more chars are skipped and the char is pushed
push_char_lit(lit, k, res, c) ==
    IF c.kind = "Fatal" THEN c ELSE str_loop(lit, k + c.len, res \o <<c.ch>>)

\* the loop of str_lit with the iterator before the k-th char and res built so far
str_loop(lit, k, res) ==
    IF k > Len(lit) THEN StrRet(res)
    ELSE IF lit[k] = Ord["\\"]
    THEN IF k + 1 > Len(lit) THEN error(lit, k)
         ELSE IF lit[k + 1] = Ord["LF"] THEN str_loop(lit, eat(lit, k + 1), res)
         ELSE IF lit[k + 1] = Ord["CR"]
         THEN IF k + 2 > Len(lit) THEN error(lit, k)
              ELSE IF lit[k + 2] # Ord["LF"] THEN Fatal("lexer accepted bare CR")
              ELSE str_loop(lit, eat(lit, k + 2), res)
         ELSE push_char_lit(lit, k, res, char_lit(SubSeq(lit, k, Len(lit))))
    ELSE IF lit[k] = Ord["CR"]
    THEN IF k + 1 > Len(lit) THEN error(lit, k)
         ELSE IF lit[k + 1] # Ord["LF"] THEN Fatal("lexer accepted bare CR")
         ELSE str_loop(lit, k + 2, push_crlf(res))
    ELSE str_loop(lit, k + 1, res \o <<lit[k]>>)

str_lit(lit) == str_loop(lit, 1, <<>>)

------------------------------------------------------------------------------
(* The calls of char_lit *)

MaxCharLen == 3
MaxZeros == 6
MaxRun == 4

CharAlphabet == {Ord[c] : c \in {"\\", "n", "'", "0", "x", "u", "{", "}", "4", "e-acute"}}

EscapeLetters == {Ord[c] : c \in {"\"", "n", "r", "t", "\\", "'", "0"}}

\* a simple escape and the text after it
SimpleEscapeTexts ==
    {<<Ord["\\"], e>> \o rest : e \in EscapeLetters, rest \in Strings(CharAlphabet, 2)}

\* the digits in the middle of a numeric escape: around the surrogates, around
\* 0x10FFFF, and what is no hex digit
MidTexts ==
    { <<>>, Txt(<<"4">>), Txt(<<"4", "1">>), Txt(<<"1">>), Txt(<<"1", "0">>),
      Txt(<<"1", "1">>), Txt(<<"d">>), Txt(<<"d", "7">>), Txt(<<"d", "8">>),
      Txt(<<"d", "f">>), Txt(<<"e">>), Txt(<<"F">>), Txt(<<"g">>), Txt(<<"4", "g">>),
      Txt(<<"+", "4">>), Txt(<<"e-acute">>) }

\* a numeric escape: the introducer, a run of zeros, some digits, a run of 0 or f,
\* the closing brace or none, and the text after it
NumericEscapeTexts ==
    { intro \o Repeat(Ord["0"], k1) \o mid \o Repeat(d, k2) \o closer \o rest :
        intro \in {Txt(<<"\\", "x">>), Txt(<<"\\", "X">>), Txt(<<"\\", "u", "{">>),
                   Txt(<<"\\", "U">>), Txt(<<"\\", "u">>)},
        k1 \in 0..MaxZeros,
        mid \in MidTexts,
        d \in {Ord["0"], Ord["f"]},
        k2 \in (0..MaxRun) \cup {8, 9},
        closer \in {<<>>, Txt(<<"}">>)},
        rest \in {<<>>, Txt(<<"4">>), Txt(<<"e-acute", "}">>)} }

CharTexts == Strings(CharAlphabet, MaxCharLen) \cup SimpleEscapeTexts \cup NumericEscapeTexts

InitChar ==
    /\ call \in {Call("char_lit", t, None) : t \in CharTexts}
    /\ ret = Pending
    /\ diags = <<>>
    /\ pc = "call"
    /\ sess = with_span_handler
    /\ local = NoLocals

\* a call of char_lit runs to its return or to its panic; it has no handler to emit to
CharLit ==
    /\ pc = "call"
    /\ call.fn = "char_lit"
    /\ ret' = char_lit(call.lit)
    /\ pc' = "done"
    /\ UNCHANGED <<call, diags, sess, local>>

NextChar == CharLit

SpecChar == InitChar /\ [][NextChar]_vars

------------------------------------------------------------------------------
(* The calls of str_lit *)

MaxStrLen == 5

StrAlphabet == {Ord[c] : c \in {"\\", "LF", "CR", " ", "TAB", "n", "a"}}

\* a line continuation after a text that ends inside an escape or after one
StrEscapeTexts ==
    { pre \o cont \o ws \o rest :
        pre \in {Txt(<<"\\">>), Txt(<<"\\", "x", "4">>), Txt(<<"\\", "x", "4", "4">>),
                 Txt(<<"\\", "u", "{", "4">>), Txt(<<"\\", "u", "{", "4", "4", "}">>)},
        cont \in {Txt(<<"\\", "LF">>), Txt(<<"\\", "CR", "LF">>)},
        ws \in Strings({Ord[" "], Ord["CR"], Ord["LF"]}, 1),
        rest \in {<<>>, Txt(<<"4">>), Txt(<<"4", "}">>), Txt(<<"n">>)} }

StrTexts == Strings(StrAlphabet, MaxStrLen) \cup StrEscapeTexts

InitStr ==
    /\ call \in {Call("str_lit", t, None) : t \in StrTexts}
    /\ ret = Pending
    /\ diags = <<>>
    /\ pc = "call"
    /\ sess = with_span_handler
    /\ local = NoLocals

StrLit ==
    /\ pc = "call"
    /\ call.fn = "str_lit"
    /\ ret' = str_lit(call.lit)
    /\ pc' = "done"
    /\ UNCHANGED <<call, diags, sess, local>>

NextStr == StrLit

SpecStr == InitStr /\ [][NextStr]_vars

------------------------------------------------------------------------------
(* C7 *)

\* the letter of each simple escape and the character it stands for
EscapeTable ==
    { <<Ord["\""], Ord["\""]>>, <<Ord["n"], Ord["LF"]>>, <<Ord["r"], Ord["CR"]>>,
      <<Ord["t"], Ord["TAB"]>>, <<Ord["\\"], Ord["\\"]>>, <<Ord["'"], Ord["'"]>>,
      <<Ord["0"], Ord["NUL"]>> }

\* C7: char_lit on a body of exactly one character c other than backslash returns
\* (c, 1); on a body that starts with a backslash followed by one of " n r t \ ' 0
\* it returns the character the escape stands for with consumed-length 2, whatever
\* text follows the two characters.
C7_SimpleChar ==
    Returned("char_lit") =>
        /\ (Len(call.lit) = 1 /\ call.lit[1] # Ord["\\"]) => ret = CharRet(call.lit[1], 1)
        /\ \A e \in EscapeTable :
               (Len(call.lit) >= 2 /\ call.lit[1] = Ord["\\"] /\ call.lit[2] = e[1])
                   => ret = CharRet(e[2], 2)

\* \0 with text after it has been decoded as NUL
C7_Witness ==
    /\ Returned("char_lit")
    /\ call.lit = Txt(<<"\\", "0", "4", "e-acute">>)
    /\ ret = CharRet(Ord["NUL"], 2)

------------------------------------------------------------------------------
(* C8 *)

AllHex(s) == \A i \in 1..Len(s) : IsDigitOf(s[i], 16)

\* the text starts with the introducer followed by n hex digits, n >= 1
EscapeOf(lit, intro, n) ==
    /\ n >= 1
    /\ Len(lit) >= Len(intro) + n
    /\ SubSeq(lit, 1, Len(intro)) = intro
    /\ AllHex(SubSeq(lit, Len(intro) + 1, Len(intro) + n))

\* the number the n hex digits after the introducer denote
HexValue(lit, intro, n) ==
    ValueOf(<<>>, SubSeq(lit, Len(intro) + 1, Len(intro) + n), 16)

\* a number below 2^32 as an integer
AsInt(v) ==
    IF Len(v) = 0 THEN 0 ELSE IF Len(v) = 1 THEN v[1] ELSE (v[2] * LimbBase) + v[1]

FirstSurrogate == AsInt(ValueOf(<<>>, Txt(<<"d", "8", "0", "0">>), 16))
LastSurrogate == AsInt(ValueOf(<<>>, Txt(<<"d", "f", "f", "f">>), 16))
LastScalar == AsInt(ValueOf(<<>>, Txt(<<"1", "0", "f", "f", "f", "f">>), 16))

\* the number is the code point of a Unicode scalar
IsScalar(v) ==
    /\ Len(v) <= 2
    /\ Len(v) = 2 => v[2] <= LastScalar \div LimbBase
    /\ AsInt(v) <= LastScalar
    /\ ~(FirstSurrogate <= AsInt(v) /\ AsInt(v) <= LastSurrogate)

\* the escape of n digits after the introducer is decoded with consumed-length len
DecodedAs(lit, intro, n, len) ==
    (EscapeOf(lit, intro, n) /\ IsScalar(HexValue(lit, intro, n)))
        => ret = CharRet(AsInt(HexValue(lit, intro, n)), len)

\* C8: char_lit on a numeric escape whose digits denote a Unicode scalar returns
\* that scalar, with consumed-length 4 for \x or \X followed by two hex digits,
\* (number of digits + 4) for \u followed by a braced run of one or more hex
\* digits, and 10 for \U followed by eight hex digits, whatever text follows.
C8_NumericEscape ==
    Returned("char_lit") =>
        /\ DecodedAs(call.lit, Txt(<<"\\", "x">>), 2, 4)
        /\ DecodedAs(call.lit, Txt(<<"\\", "X">>), 2, 4)
        /\ \A n \in 1..Len(call.lit) :
               (Len(call.lit) >= n + 4 /\ call.lit[n + 4] = Ord["}"])
                   => DecodedAs(call.lit, Txt(<<"\\", "u", "{">>), n, n + 4)
        /\ DecodedAs(call.lit, Txt(<<"\\", "U">>), 8, 10)

\* \u{41} with text after it has been decoded as A with consumed-length 6
C8_Witness ==
    /\ Returned("char_lit")
    /\ call.lit = Txt(<<"\\", "u", "{", "4", "1", "}", "4">>)
    /\ ret = CharRet(Ord["A"], 6)

------------------------------------------------------------------------------
(* C9 *)

\* a backslash at the j-th character immediately followed by LF, or by CR then LF
ContinuationAt(lit, j) ==
    /\ lit[j] = Ord["\\"]
    /\ \/ j + 1 <= Len(lit) /\ lit[j + 1] = Ord["LF"]
       \/ j + 2 <= Len(lit) /\ lit[j + 1] = Ord["CR"] /\ lit[j + 2] = Ord["LF"]

IsSpace(c) == c \in {Ord[" "], Ord["TAB"], Ord["CR"], Ord["LF"]}

\* the text before the j-th character
PrefixOf(lit, j) == SubSeq(lit, 1, j - 1)

\* the text after the newline and the whole run of whitespace that follow the
\* backslash at the j-th character
RestOf(lit, j) ==
    LET i == CHOOSE i \in (j + 1)..(Len(lit) + 1) :
                 /\ i = Len(lit) + 1 \/ ~IsSpace(lit[i])
                 /\ \A m \in (j + 1)..(i - 1) : IsSpace(lit[m])
    IN  SubSeq(lit, i, Len(lit))

\* two decodings are equal: the same text is returned, or both end in the fatal
\* error (whose message quotes the whole input)
SameDecoding(a, b) == IF a.kind = "Str" THEN b = a ELSE b.kind = "Fatal"

\* the statement without the condition on the prefix: for every prefix
C9_AsStated ==
    Returned("str_lit") =>
        \A j \in 1..Len(call.lit) :
            ContinuationAt(call.lit, j)
                => SameDecoding(ret, str_lit(PrefixOf(call.lit, j) \o RestOf(call.lit, j)))

\* C9: in str_lit a backslash immediately followed by LF, or by CR then LF, with
\* the whole run of space, tab, CR and LF after it, contributes no character:
\* decoding prefix + backslash + newline + whitespace + rest equals decoding
\* prefix + rest, whenever rest does not begin with whitespace and the prefix is
\* decoded on its own (it does not end inside an escape or with a CR).
C9_LineContinuation ==
    Returned("str_lit") =>
        \A j \in 1..Len(call.lit) :
            (ContinuationAt(call.lit, j) /\ str_lit(PrefixOf(call.lit, j)).kind = "Str")
                => SameDecoding(ret, str_lit(PrefixOf(call.lit, j) \o RestOf(call.lit, j)))

\* a continuation with a tab after it, between two characters that are decoded
C9_Witness ==
    /\ Returned("str_lit")
    /\ call.lit = Txt(<<"a", "\\", "LF", "TAB", "n">>)
    /\ ret = StrRet(Txt(<<"a", "n">>))

------------------------------------------------------------------------------
(* C10 *)

\* a CR at the i-th character that is not immediately followed by LF
BareCRAt(lit, i) ==
    lit[i] = Ord["CR"] /\ (i = Len(lit) \/ lit[i + 1] # Ord["LF"])

\* the i-th character lies in the newline and whitespace after a continuation
InContinuation(lit, i) ==
    \E j \in 1..(i - 1) :
        /\ ContinuationAt(lit, j)
        /\ \A m \in (j + 1)..i : IsSpace(lit[m])

RECURSIVE Collapse(_)
\* the text with every CR LF pair replaced by LF
Collapse(t) ==
    IF t = <<>> THEN <<>>
    ELSE IF Len(t) >= 2 /\ t[1] = Ord["CR"] /\ t[2] = Ord["LF"]
    THEN <<Ord["LF"]>> \o Collapse(SubSeq(t, 3, Len(t)))
    ELSE <<t[1]>> \o Collapse(SubSeq(t, 2, Len(t)))

------------------------------------------------------------------------------
(* Raw string literals *)

\* the CR of a pair is pushed as it is
raw_push_crlf_as_cr(res) == res \o <<Ord["CR"]>>

\* chars.next(); res.push('\n') of raw_str_lit
raw_push_crlf(res) == res \o <<Ord["LF"]>>

RECURSIVE raw_loop(_, _, _)
\* the loop of raw_str_lit with the iterator before the k-th char
raw_loop(lit, k, res) ==
    IF k > Len(lit) THEN StrRet(res)
    ELSE IF lit[k] = Ord["CR"]
    THEN IF k + 1 > Len(lit) THEN Fatal("called Option::unwrap() on a None value")
         ELSE IF lit[k + 1] # Ord["LF"] THEN Fatal("lexer accepted bare CR")
         ELSE raw_loop(lit, k + 2, raw_push_crlf(res))
    ELSE raw_loop(lit, k + 1, res \o <<lit[k]>>)

raw_str_lit(lit) == raw_loop(lit, 1, <<>>)

MaxRawLen == 5

RawAlphabet == {Ord[c] : c \in {"CR", "LF", "\\", "n", "a", "e-acute"}}

RawTexts == Strings(RawAlphabet, MaxRawLen)

InitRaw ==
    /\ call \in {Call("raw_str_lit", t, None) : t \in RawTexts}
    /\ ret = Pending
    /\ diags = <<>>
    /\ pc = "call"
    /\ sess = with_span_handler
    /\ local = NoLocals

RawStrLit ==
    /\ pc = "call"
    /\ call.fn = "raw_str_lit"
    /\ ret' = raw_str_lit(call.lit)
    /\ pc' = "done"
    /\ UNCHANGED <<call, diags, sess, local>>

NextRaw == RawStrLit

SpecRaw == InitRaw /\ [][NextRaw]_vars

------------------------------------------------------------------------------
(* C11 *)

\* every CR of the text is immediately followed by LF
EveryCRPaired(t) == \A i \in 1..Len(t) : ~BareCRAt(t, i)

\* C11: raw_str_lit on an input in which every CR is immediately followed by LF
\* returns the input with each CR LF pair replaced by one LF and every other
\* character, backslashes included, unchanged and in order; the output has no CR
\* and raw_str_lit of the output returns the output.
C11_RawStr ==
    (Returned("raw_str_lit") /\ EveryCRPaired(call.lit)) =>
        /\ ret = StrRet(Collapse(call.lit))
        /\ \A i \in 1..Len(ret.str) : ret.str[i] # Ord["CR"]
        /\ raw_str_lit(ret.str) = ret

\* a text with a backslash escape and a CR LF pair has been decoded
C11_Witness ==
    /\ Returned("raw_str_lit")
    /\ call.lit = Txt(<<"\\", "n", "CR", "LF", "a">>)
    /\ ret = StrRet(Txt(<<"\\", "n", "LF", "a">>))

------------------------------------------------------------------------------
(* Byte literals *)

ByteRet(b, n) == [kind |-> "Byte", b |-> b, len |-> n]

\* the closure err of byte_lit
err(lit, i) == FatalFmt("lexer accepted invalid byte literal {} step {}", <<lit, i>>)

\* \0 taken for the digit
byte_escape_zero_digit(b) ==
    IF      b = Ord["\""] THEN Some(Ord["\""])
    ELSE IF b = Ord["n"]  THEN Some(Ord["LF"])
    ELSE IF b = Ord["r"]  THEN Some(Ord["CR"])
    ELSE IF b = Ord["t"]  THEN Some(Ord["TAB"])
    ELSE IF b = Ord["\\"] THEN Some(Ord["\\"])
    ELSE IF b = Ord["'"]  THEN Some(Ord["'"])
    ELSE IF b = Ord["0"]  THEN Some(Ord["0"])
    ELSE None

\* the match of byte_lit on the byte after the backslash, None for its last arm
byte_escape(b) ==
    IF      b = Ord["\""] THEN Some(Ord["\""])
    ELSE IF b = Ord["n"]  THEN Some(Ord["LF"])
    ELSE IF b = Ord["r"]  THEN Some(Ord["CR"])
    ELSE IF b = Ord["t"]  THEN Some(Ord["TAB"])
    ELSE IF b = Ord["\\"] THEN Some(Ord["\\"])
    ELSE IF b = Ord["'"]  THEN Some(Ord["'"])
    ELSE IF b = Ord["0"]  THEN Some(Ord["NUL"])
    ELSE None

\* c > 0xFF for a u64 in limbs
above_u8(limbs) == limbs[1] > 255 \/ \E i \in 2..Len(limbs) : limbs[i] # 0

\* the match on u64::from_str_radix(..).ok() of byte_lit
byte_of_parse(lit, r) ==
    IF ~r.ok THEN err(lit, 3)
    ELSE IF above_u8(r.val) THEN err(lit, 2)
    ELSE ByteRet(r.val[1] % 256, 4)

\* the last arm of the match: u64::from_str_radix(&lit[2..4], 16)
byte_hex(lit, sl) ==
    IF ~sl.some THEN Fatal("byte index out of the text or off a char boundary")
    ELSE byte_of_parse(lit, from_str_radix(sl.val, 16, U64Limbs))

\* the digits sliced from the byte after the backslash
byte_match_from_one(lit, b) ==
    IF b.some THEN ByteRet(b.val, 2) ELSE byte_hex(lit, byte_slice(lit, 1, 4))

\* the match of byte_lit with the result b of its first arms
byte_match(lit, b) ==
    IF b.some THEN ByteRet(b.val, 2) ELSE byte_hex(lit, byte_slice(lit, 2, 4))

byte_lit(lit) ==
    IF str_len(lit) = 1 THEN ByteRet(as_bytes(lit)[1], 1)
    ELSE IF str_len(lit) = 0 THEN Fatal("index out of bounds")
    ELSE IF as_bytes(lit)[1] # Ord["\\"] THEN err(lit, 0)
    ELSE byte_match(lit, byte_escape(as_bytes(lit)[2]))

MaxByteLen == 4

ByteAlphabet ==
    {Ord[c] : c \in {"\\", "n", "0", "x", "X", "4", "f", "F", "g", "+", "e-acute"}}

\* a simple escape and the text after it
ByteEscapeTexts ==
    {<<Ord["\\"], e>> \o rest : e \in EscapeLetters, rest \in Strings(ByteAlphabet, 2)}

ByteTexts == Strings(ByteAlphabet, MaxByteLen) \cup ByteEscapeTexts

InitByte ==
    /\ call \in {Call("byte_lit", t, None) : t \in ByteTexts}
    /\ ret = Pending
    /\ diags = <<>>
    /\ pc = "call"
    /\ sess = with_span_handler
    /\ local = NoLocals

ByteLit ==
    /\ pc = "call"
    /\ call.fn = "byte_lit"
    /\ ret' = byte_lit(call.lit)
    /\ pc' = "done"
    /\ UNCHANGED <<call, diags, sess, local>>

NextByte == ByteLit

SpecByte == InitByte /\ [][NextByte]_vars

------------------------------------------------------------------------------
(* C12 *)

\* C12: byte_lit on a one-byte body that is not a backslash returns (that byte,
\* 1); on a body starting with a backslash followed by one of " n r t \ ' 0 it
\* returns the byte the escape stands for with consumed-length 2; on a body
\* starting with backslash-x followed by two hex digits it returns the byte with
\* that value and consumed-length 4; it returns no other consumed-length than 1,
\* 2 or 4.
C12_ByteLit ==
    Returned("byte_lit") =>
        /\ (str_len(call.lit) = 1 /\ call.lit[1] # Ord["\\"])
               => ret = ByteRet(call.lit[1], 1)
        /\ \A e \in EscapeTable :
               (Len(call.lit) >= 2 /\ call.lit[1] = Ord["\\"] /\ call.lit[2] = e[1])
                   => ret = ByteRet(e[2], 2)
        /\ EscapeOf(call.lit, Txt(<<"\\", "x">>), 2)
               => ret = ByteRet(AsInt(HexValue(call.lit, Txt(<<"\\", "x">>), 2)), 4)
        /\ ret.kind = "Byte" => ret.len \in {1, 2, 4}

\* \xfF has been decoded as the byte 255
C12_Witness ==
    /\ Returned("byte_lit")
    /\ call.lit = Txt(<<"\\", "x", "f", "F">>)
    /\ ret = ByteRet(255, 4)

------------------------------------------------------------------------------
(* The parsing session and the pipeline from a file, a string or token     *)
(* trees to a parser.  The code map, the lexer, the parser and the          *)
(* diagnostic handler are used through their interface: what a call of     *)
(* them can answer is chosen among the answers that interface allows.      *)

MaxFileLen == 1
MaxPos == 2
MaxDiags == 2
MaxDepth == 1

Paths == {"a.rs", "b.rs"}

\* syntax_pos::mk_sp and syntax_pos::DUMMY_SP
mk_sp(lo, hi) == [lo |-> lo, hi |-> hi]
DUMMY_SP == mk_sp(0, 0)

\* a token tree: one token with its span
TokenTree(tok, sp) == [tok |-> tok, sp |-> sp]

\* a diagnostic handed to the handler: its level, its message and its span if any
Diagnostic(level, msg, span) == [level |-> level, msg |-> msg, span |-> span]

\* CodeMap::load_file and CodeMap::new_filemap: a source of len bytes registered
\* at the next position of the position space
new_filemap(s, name, len) ==
    [name |-> name, start_pos |-> s.next_pos, end_pos |-> s.next_pos + len]

\* the session once the filemap is registered
register(s, filemap) == [s EXCEPT !.next_pos = filemap.end_pos + 1]

\* what CodeMap::load_file can answer: a filemap or an io::Error
LoadAnswers(s, path) ==
    {Ok(new_filemap(s, path, len)) : len \in 0..MaxFileLen} \cup {Err("io::Error")}

\* the fatal diagnostic is always standalone
load_failure_diag_no_span(spanopt, msg) == Diagnostic("fatal", msg, None)

\* the match on spanopt of file_to_filemap: span_fatal(sp, msg) or fatal(msg)
load_failure_diag(spanopt, msg) ==
    IF spanopt.some THEN Diagnostic("fatal", msg, Some(spanopt.val))
    ELSE Diagnostic("fatal", msg, None)

\* file_to_filemap on the answer of load_file: the filemap, or the fatal
\* diagnostic and the panic
file_to_filemap(answer, spanopt, d) ==
    IF answer.ok THEN Outcome(answer.val, d)
    ELSE Outcome(Fatal("FatalError"),
                 Append(d, load_failure_diag(spanopt, "couldn't read {}: {}")))

\* the token trees the token-tree pass can build from a filemap: its tokens lie
\* in the filemap
TtsOf(filemap) ==
    {<<>>} \cup {<<TokenTree("Ident", mk_sp(filemap.start_pos, hi))>> :
                     hi \in (filemap.start_pos + 1)..filemap.end_pos}

\* what Parser::parse_all_token_trees can answer: a PResult
TokenTreeAnswers(filemap) ==
    {Ok(tts) : tts \in TtsOf(filemap)}
        \cup {Err(Diagnostic("error", "token-tree pass", None))}

\* an error of the pass is emitted and an empty sequence is returned
panictry_recovers(answer, d) ==
    IF answer.ok THEN Outcome(answer.val, d) ELSE Outcome(<<>>, Append(d, answer.err))

\* panictry!: the value of an Ok; an Err is emitted and the call panics
panictry(answer, d) ==
    IF answer.ok THEN Outcome(answer.val, d)
    ELSE Outcome(Fatal("FatalError"), Append(d, answer.err))

\* Parser::new on a token-tree reader: the parser at its first token, at Eof
\* with the dummy span when there is none
Parser_new(tts) ==
    [kind |-> "Parser",
     token |-> IF tts = <<>> THEN "Eof" ELSE tts[1].tok,
     span |-> IF tts = <<>> THEN DUMMY_SP ELSE tts[1].sp,
     owns_directory |-> TRUE,
     root_module_name |-> None]

\* tts_to_parser
tts_to_parser(tts) == Parser_new(tts)

\* the span of an empty input keeps its dummy start
eof_span_from_dummy(parser, end_pos) ==
    IF parser.token = "Eof" /\ parser.span = DUMMY_SP
    THEN [parser EXCEPT !.span = mk_sp(DUMMY_SP.lo, end_pos + 1)]
    ELSE parser

\* the if of filemap_to_parser
eof_span(parser, end_pos) ==
    IF parser.token = "Eof" /\ parser.span = DUMMY_SP
    THEN [parser EXCEPT !.span = mk_sp(end_pos, end_pos)]
    ELSE parser

\* the path is pushed on the inclusion stack as well
set_sub_fields_and_push(s, p, c) ==
    [sess |-> [s EXCEPT !.included_mod_stack = Append(@, c.path)],
     parser |-> [p EXCEPT !.owns_directory = c.owns_directory,
                          !.root_module_name = c.module_name]]

\* the two assignments of new_sub_parser_from_file; the session is not touched
set_sub_fields(s, p, c) ==
    [sess |-> s,
     parser |-> [p EXCEPT !.owns_directory = c.owns_directory,
                          !.root_module_name = c.module_name]]

\* a call of an entry point with its arguments
Entry(fn, path, owns_directory, module_name, sp, tts, len) ==
    [fn |-> fn, path |-> path, owns_directory |-> owns_directory,
     module_name |-> module_name, sp |-> sp, tts |-> tts, len |-> len]

FromFile == {"new_parser_from_file", "parse_crate_from_file", "parse_crate_attrs_from_file"}

\* token trees handed to new_parser_from_tts: none, one whose span is the dummy
\* span (built by a macro), one from a source
CallerTts ==
    {<<>>, <<TokenTree("Ident", DUMMY_SP)>>, <<TokenTree("Ident", mk_sp(0, 1))>>}

Entries ==
    {Entry(fn, path, TRUE, None, None, <<>>, 0) : fn \in FromFile, path \in Paths}
    \cup {Entry("new_sub_parser_from_file", path, o, m, Some(mk_sp(0, 1)), <<>>, 0) :
              path \in Paths, o \in BOOLEAN, m \in {None, Some("m")}}
    \cup {Entry("new_parser_from_source_str", "<anon>", TRUE, None, None, <<>>, len) :
              len \in 0..MaxFileLen}
    \cup {Entry("new_parser_from_tts", "<anon>", TRUE, None, None, tts, 0) :
              tts \in CallerTts}

InitIngest ==
    /\ call = Entry("none", "<anon>", TRUE, None, None, <<>>, 0)
    /\ ret = Pending
    /\ diags = <<>>
    /\ pc = "idle"
    /\ sess = with_span_handler
    /\ local = NoLocals

\* the driver calls an entry point
Enter ==
    /\ pc = "idle"
    /\ sess.next_pos <= MaxPos
    /\ Len(diags) < MaxDiags
    /\ \E c \in Entries :
           /\ call' = c
           /\ pc' = IF c.fn = "new_parser_from_tts" THEN "tts_to_parser"
                    ELSE IF c.fn = "new_parser_from_source_str" THEN "new_filemap"
                    ELSE "file_to_filemap"
    /\ ret' = Pending
    /\ local' = NoLocals
    /\ UNCHANGED <<diags, sess>>

\* the parser (outside this file) pushes the file of a module it is about to
\* include, and pops it when the module is parsed
PushIncluded ==
    /\ pc = "idle"
    /\ Len(sess.included_mod_stack) < MaxDepth
    /\ \E path \in Paths :
           sess' = [sess EXCEPT !.included_mod_stack = Append(@, path)]
    /\ UNCHANGED <<call, ret, diags, pc, local>>

PopIncluded ==
    /\ pc = "idle"
    /\ sess.included_mod_stack # <<>>
    /\ sess' = [sess EXCEPT !.included_mod_stack = SubSeq(@, 1, Len(@) - 1)]
    /\ UNCHANGED <<call, ret, diags, pc, local>>

\* file_to_filemap(sess, path, spanopt), the argument of filemap_to_parser
FileToFilemap ==
    /\ pc = "file_to_filemap"
    /\ \E answer \in LoadAnswers(sess, call.path) :
           LET out == file_to_filemap(answer, call.sp, diags)
           IN  /\ diags' = out.diags
               /\ IF answer.ok
                  THEN /\ local' = [local EXCEPT !.filemap = Some(out.ret)]
                       /\ sess' = register(sess, out.ret)
                       /\ pc' = "filemap_to_tts"
                       /\ ret' = ret
                  ELSE /\ ret' = out.ret
                       /\ pc' = "done"
                       /\ UNCHANGED <<local, sess>>
    /\ UNCHANGED call

\* sess.codemap().new_filemap(name, None, source) of new_parser_from_source_str
NewFilemap ==
    /\ pc = "new_filemap"
    /\ LET filemap == new_filemap(sess, call.path, call.len)
       IN  /\ local' = [local EXCEPT !.filemap = Some(filemap)]
           /\ sess' = register(sess, filemap)
    /\ pc' = "filemap_to_tts"
    /\ UNCHANGED <<call, ret, diags>>

\* filemap_to_parser up to the return of filemap_to_tts
FilemapToTts ==
    /\ pc = "filemap_to_tts"
    /\ \E answer \in TokenTreeAnswers(local.filemap.val) :
           LET out == panictry(answer, diags)
           IN  /\ diags' = out.diags
               /\ IF out.ret = Fatal("FatalError")
                  THEN /\ ret' = out.ret
                       /\ pc' = "done"
                       /\ local' = [local EXCEPT !.end_pos = Some(local.filemap.val.end_pos)]
                  ELSE /\ ret' = ret
                       /\ pc' = "tts_to_parser"
                       /\ local' = [local EXCEPT
                                      !.end_pos = Some(local.filemap.val.end_pos),
                                      !.tts = Some(out.ret)]
    /\ UNCHANGED <<call, sess>>

\* tts_to_parser, which is the whole of new_parser_from_tts
TtsToParser ==
    /\ pc = "tts_to_parser"
    /\ IF call.fn = "new_parser_from_tts"
       THEN /\ local' = [local EXCEPT !.parser = Some(tts_to_parser(call.tts))]
            /\ ret' = tts_to_parser(call.tts)
            /\ pc' = "done"
       ELSE /\ local' = [local EXCEPT !.parser = Some(tts_to_parser(local.tts.val))]
            /\ ret' = ret
            /\ pc' = "filemap_to_parser"
    /\ UNCHANGED <<call, diags, sess>>

\* the rest of filemap_to_parser
FilemapToParser ==
    /\ pc = "filemap_to_parser"
    /\ LET parser == eof_span(local.parser.val, local.end_pos.val)
       IN  /\ local' = [local EXCEPT !.parser = Some(parser)]
           /\ IF call.fn = "new_sub_parser_from_file"
              THEN ret' = ret /\ pc' = "new_sub_parser_from_file"
              ELSE IF call.fn \in {"parse_crate_from_file", "parse_crate_attrs_from_file"}
              THEN ret' = ret /\ pc' = "parse"
              ELSE ret' = parser /\ pc' = "done"
    /\ UNCHANGED <<call, diags, sess>>

\* the rest of new_sub_parser_from_file
NewSubParserFromFile ==
    /\ pc = "new_sub_parser_from_file"
    /\ LET out == set_sub_fields(sess, local.parser.val, call)
       IN  /\ sess' = out.sess
           /\ local' = [local EXCEPT !.parser = Some(out.parser)]
           /\ ret' = out.parser
    /\ pc' = "done"
    /\ UNCHANGED <<call, diags>>

\* parser.parse_crate_mod() or parser.parse_inner_attributes(): a PResult
ParseCrate ==
    /\ pc = "parse"
    /\ \E ok \in BOOLEAN : ret' = [kind |-> "PResult", ok |-> ok]
    /\ pc' = "done"
    /\ UNCHANGED <<call, diags, sess, local>>

\* the call is over: its value is with the driver, or its panic has unwound
Leave ==
    /\ pc = "done"
    /\ pc' = "idle"
    /\ ret' = Pending
    /\ local' = NoLocals
    /\ UNCHANGED <<call, diags, sess>>

NextIngest ==
    \/ Enter
    \/ PushIncluded
    \/ PopIncluded
    \/ FileToFilemap
    \/ NewFilemap
    \/ FilemapToTts
    \/ TtsToParser
    \/ FilemapToParser
    \/ NewSubParserFromFile
    \/ ParseCrate
    \/ Leave

SpecIngest == InitIngest /\ [][NextIngest]_vars

------------------------------------------------------------------------------
(* C13 *)

\* the step in which loading the file fails
LoadFails == pc = "file_to_filemap" /\ ~local'.filemap.some

\* the fatal diagnostic of the failure: against the origin span of
\* new_sub_parser_from_file, standalone for the other entry points
FailureDiag ==
    IF call.fn = "new_sub_parser_from_file"
    THEN Diagnostic("fatal", "couldn't read {}: {}", call.sp)
    ELSE Diagnostic("fatal", "couldn't read {}: {}", None)

\* the call has ended in the failure to load its file
LoadFailed ==
    /\ pc = "done"
    /\ call.fn \in FromFile \cup {"new_sub_parser_from_file"}
    /\ ~local.filemap.some

\* C13: when loading the file fails, file_to_filemap is fatal: it emits exactly
\* one fatal diagnostic, against the origin span when one was supplied
\* (new_sub_parser_from_file) and standalone when none was (new_parser_from_file,
\* parse_crate_from_file, parse_crate_attrs_from_file); no tokenization is
\* performed and no parser is constructed or returned after the failure.
C13_LoadFailure ==
    [][ /\ LoadFails =>
              /\ diags' = Append(diags, FailureDiag)
              /\ ret' = Fatal("FatalError")
              /\ pc' = "done"
        /\ LoadFailed =>
              /\ ~local.tts.some /\ ~local.parser.some /\ ret.kind = "Fatal"
              /\ pc' = "idle" /\ diags' = diags
      ]_vars

\* a sub-module file could not be read: one fatal diagnostic against the origin span
C13_Witness ==
    /\ LoadFailed
    /\ call.fn = "new_sub_parser_from_file"
    /\ diags = <<Diagnostic("fatal", "couldn't read {}: {}", Some(mk_sp(0, 1)))>>
    /\ ret.kind = "Fatal"

------------------------------------------------------------------------------
(* C14 *)

\* filemap_to_tts has been called in the call in progress
Tokenized == local.end_pos.some

------------------------------------------------------------------------------
(* C15 *)

------------------------------------------------------------------------------
(* C16 *)

\* the position a parser on the token trees starts at: the span of the first
\* token, the dummy span when there is none
InitialSpan(tts) == IF tts = <<>> THEN DUMMY_SP ELSE tts[1].sp

\* a call has handed back a parser
Built == pc = "done" /\ ret.kind = "Parser"

\* the statement as it stands: no parser starts at the dummy span
C16_AsStated == Built => ret.span # DUMMY_SP

\* C16: a parser built by filemap_to_parser (new_parser_from_file,
\* new_parser_from_source_str, new_sub_parser_from_file) whose initial position
\* would be the dummy span starts at the zero-width span (end_pos, end_pos) at
\* the end of the source record, and otherwise at its initial span; a parser
\* built by tts_to_parser alone (new_parser_from_tts) starts at its initial
\* span, the dummy span included.
C16_InitialSpan ==
    Built =>
        IF call.fn = "new_parser_from_tts"
        THEN ret.span = InitialSpan(call.tts)
        ELSE /\ local.tts.some /\ local.filemap.some
             /\ ret.span = IF InitialSpan(local.tts.val) = DUMMY_SP
                           THEN mk_sp(local.filemap.val.end_pos, local.filemap.val.end_pos)
                           ELSE InitialSpan(local.tts.val)

\* a parser on a source without tokens, registered after another source, starts
\* at the end of its source record
C16_Witness ==
    /\ Built
    /\ call.fn = "new_parser_from_source_str"
    /\ local.tts = Some(<<>>)
    /\ local.filemap.val.end_pos = 1
    /\ ret.span = mk_sp(1, 1)

------------------------------------------------------------------------------
(* C17 *)

\* the text is the digits of a numeric escape the claim names: hex digits only
HexRun(s) == s # <<>> /\ AllHex(s)

\* ... or hex digits after a plus sign
SignedHexRun(s) == HexRun(s) \/ (Len(s) >= 2 /\ s[1] = Ord["+"] /\ HexRun(Tail(s)))

\* the hex digits of a run
HexDigitsOf(s) == IF s # <<>> /\ s[1] = Ord["+"] THEN Tail(s) ELSE s

\* the digits denote a Unicode scalar
DenotesScalar(s) == IsScalar(ValueOf(<<>>, HexDigitsOf(s), 16))

\* the place of the first closing brace, 0 when there is none
FirstBrace(lit) ==
    IF \E p \in 1..Len(lit) : lit[p] = Ord["}"]
    THEN CHOOSE p \in 1..Len(lit) :
             lit[p] = Ord["}"] /\ \A q \in 1..(p - 1) : lit[q] # Ord["}"]
    ELSE 0

StartsWith(lit, intro) == Len(lit) >= Len(intro) /\ SubSeq(lit, 1, Len(intro)) = intro

\* the shapes of the claim, with Run for what counts as the digits
ShapeSimple(lit) ==
    \/ Len(lit) = 1 /\ lit[1] # Ord["\\"]
    \/ Len(lit) >= 2 /\ lit[1] = Ord["\\"] /\ \E e \in EscapeTable : lit[2] = e[1]

ShapeFixed(lit, intro, n, Run(_)) ==
    /\ StartsWith(lit, intro)
    /\ Len(lit) >= Len(intro) + n
    /\ Run(SubSeq(lit, Len(intro) + 1, Len(intro) + n))
    /\ DenotesScalar(SubSeq(lit, Len(intro) + 1, Len(intro) + n))

ShapeBraced(lit, Run(_)) ==
    /\ StartsWith(lit, Txt(<<"\\", "u", "{">>))
    /\ FirstBrace(lit) > 0
    /\ Run(SubSeq(lit, 4, FirstBrace(lit) - 1))
    /\ DenotesScalar(SubSeq(lit, 4, FirstBrace(lit) - 1))

\* the inputs the claim says char_lit returns a value for
ClaimedShapes(lit) ==
    \/ ShapeSimple(lit)
    \/ ShapeFixed(lit, Txt(<<"\\", "x">>), 2, HexRun)
    \/ ShapeFixed(lit, Txt(<<"\\", "X">>), 2, HexRun)
    \/ ShapeBraced(lit, HexRun)
    \/ ShapeFixed(lit, Txt(<<"\\", "U">>), 8, HexRun)

ReturningShapes(lit) ==
    \/ ShapeSimple(lit)
    \/ ShapeFixed(lit, Txt(<<"\\", "x">>), 2, SignedHexRun)
    \/ ShapeFixed(lit, Txt(<<"\\", "X">>), 2, SignedHexRun)
    \/ ShapeBraced(lit, SignedHexRun)
    \/ (Len(lit) >= 3 /\ lit[3] # Ord["{"]
           /\ ShapeFixed(lit, Txt(<<"\\", "u">>), 4, SignedHexRun))
    \/ ShapeFixed(lit, Txt(<<"\\", "U">>), 8, SignedHexRun)

------------------------------------------------------------------------------
(* C18 *)

\* the escape grammar of byte_lit: one byte that is not a backslash, a simple
\* escape, or backslash-x with two hex digits
ByteGrammar(lit) ==
    \/ str_len(lit) = 1 /\ lit[1] # Ord["\\"]
    \/ Len(lit) >= 2 /\ lit[1] = Ord["\\"] /\ \E e \in EscapeTable : lit[2] = e[1]
    \/ EscapeOf(lit, Txt(<<"\\", "x">>), 2)

\* C18: byte_lit ends in the internal fatal error for every body that is not in
\* its escape grammar, in particular for a lone backslash and for a backslash
\* followed by a character that is neither one of " n r t \ ' 0 nor x; it
\* returns consumed-length 4 only when the second character is x.
C18_ByteFatal ==
    Returned("byte_lit") =>
        /\ ~ByteGrammar(call.lit) => ret.kind = "Fatal"
        /\ (ret.kind = "Byte" /\ ret.len = 4) => call.lit[2] = Ord["x"]

------------------------------------------------------------------------------
(* C19 *)

\* the text begins with an escape that char_lit accepts
BeginsWithEscape(lit) ==
    lit # <<>> /\ lit[1] = Ord["\\"] /\ char_lit(lit).kind = "Char"

\* the text after the escape the text begins with
AfterEscape(lit) == SubSeq(lit, char_lit(lit).len + 1, Len(lit))

\* C19: str_lit resumes at exactly the character after an escape: for every
\* escape e accepted by char_lit and every text rest after it, str_lit(e + rest)
\* is the character char_lit(e + rest) returns followed by str_lit(rest), and
\* ends in the fatal error when str_lit(rest) does.
C19_Resume ==
    (Returned("str_lit") /\ BeginsWithEscape(call.lit)) =>
        IF str_lit(AfterEscape(call.lit)).kind = "Str"
        THEN ret = StrRet(<<char_lit(call.lit).ch>> \o str_lit(AfterEscape(call.lit)).str)
        ELSE ret.kind = "Fatal"

\* \x44 followed by a line continuation and a letter has been decoded
C19_Witness ==
    /\ Returned("str_lit")
    /\ call.lit = Txt(<<"\\", "x", "4", "4", "\\", "LF", "n">>)
    /\ ret = StrRet(Txt(<<"D", "n">>))

------------------------------------------------------------------------------
(* Byte string literals *)

BytesRet(bytes) == [kind |-> "Bytes", bytes |-> bytes]

\* fn eat of byte_str_lit: from the k-th byte, the place of the first byte that
\* is not b' ', b'\n', b'\r' or b'\t'
byte_eat(bytes, k) ==
    LET stops == {j \in k..Len(bytes) + 1 :
                     j = Len(bytes) + 1 \/ bytes[j] \notin Whitespace}
    IN  CHOOSE j \in stops : \A i \in stops : j <= i

\* the closure error of byte_str_lit, at the offset i of the k-th byte
byte_error(lit, k) == FatalFmt("lexer should have rejected {} at {}", <<lit, k - 1>>)

\* the text from the byte offset i on, None off a char boundary
byte_tail(lit, i) == byte_slice(lit, i, str_len(lit))

RECURSIVE byte_str_loop(_, _, _, _)
RECURSIVE push_byte_lit(_, _, _, _, _)
\* the escape is taken to be two bytes long whatever byte_lit consumed
push_byte_lit_two(lit, bytes, k, res, c) ==
    IF c.kind = "Fatal" THEN c ELSE byte_str_loop(lit, bytes, k + 2, res \o <<c.b>>)

\* the escape at the k-th byte decoded by byte_lit as c: its panic is the panic
\* of byte_str_lit, else c.len - 1 more bytes are skipped and the byte is pushed
push_byte_lit(lit, bytes, k, res, c) ==
    IF c.kind = "Fatal" THEN c ELSE byte_str_loop(lit, bytes, k + c.len, res \o <<c.b>>)

\* byte_lit(&lit[i..]) for the k-th byte
byte_lit_at(lit, k, tail) ==
    IF ~tail.some THEN Fatal("byte index off a char boundary") ELSE byte_lit(tail.val)

\* the loop of byte_str_lit on the bytes of lit, with the iterator before the
\* k-th byte
byte_str_loop(lit, bytes, k, res) ==
    IF k > Len(bytes) THEN BytesRet(res)
    ELSE IF bytes[k] = Ord["\\"]
    THEN IF k + 1 > Len(bytes) THEN byte_error(lit, k)
         ELSE IF bytes[k + 1] = Ord["LF"]
         THEN byte_str_loop(lit, bytes, byte_eat(bytes, k + 1), res)
         ELSE IF bytes[k + 1] = Ord["CR"]
         THEN IF k + 2 > Len(bytes) THEN byte_error(lit, k)
              ELSE IF bytes[k + 2] # Ord["LF"] THEN Fatal("lexer accepted bare CR")
              ELSE byte_str_loop(lit, bytes, byte_eat(bytes, k + 2), res)
         ELSE push_byte_lit(lit, bytes, k, res,
                            byte_lit_at(lit, k, byte_tail(lit, k - 1)))
    ELSE IF bytes[k] = Ord["CR"]
    THEN IF k + 1 > Len(bytes) THEN byte_error(lit, k)
         ELSE IF bytes[k + 1] # Ord["LF"] THEN Fatal("lexer accepted bare CR")
         ELSE byte_str_loop(lit, bytes, k + 2, res \o <<Ord["LF"]>>)
    ELSE byte_str_loop(lit, bytes, k + 1, res \o <<bytes[k]>>)

byte_str_lit(lit) == byte_str_loop(lit, as_bytes(lit), 1, <<>>)

MaxByteStrLen == 5

ByteStrAlphabet == {Ord[c] : c \in {"\\", "LF", "CR", " ", "n", "x", "4", "f"}}

ByteStrTexts == Strings(ByteStrAlphabet, MaxByteStrLen)

InitByteStr ==
    /\ call \in {Call("byte_str_lit", t, None) : t \in ByteStrTexts}
    /\ ret = Pending
    /\ diags = <<>>
    /\ pc = "call"
    /\ sess = with_span_handler
    /\ local = NoLocals

ByteStrLit ==
    /\ pc = "call"
    /\ call.fn = "byte_str_lit"
    /\ ret' = byte_str_lit(call.lit)
    /\ pc' = "done"
    /\ UNCHANGED <<call, diags, sess, local>>

NextByteStr == ByteStrLit

SpecByteStr == InitByteStr /\ [][NextByteStr]_vars

------------------------------------------------------------------------------
(* C20 *)

IsAscii(c) == c < 128

\* the digit is at most 7
IsOctDigit(c) == IsDigitOf(c, 8)

RECURSIVE InCommonGrammar(_)
\* the text is built only from plain ASCII characters, the seven simple escapes,
\* backslash-x escapes of value at most 0x7F, line continuations and CR LF pairs
InCommonGrammar(t) ==
    IF t = <<>> THEN TRUE
    ELSE IF t[1] # Ord["\\"] THEN IsAscii(t[1]) /\ InCommonGrammar(Tail(t))
    ELSE IF Len(t) >= 2 /\ (t[2] = Ord["LF"] \/ \E e \in EscapeTable : t[2] = e[1])
    THEN InCommonGrammar(SubSeq(t, 3, Len(t)))
    ELSE IF Len(t) >= 3 /\ t[2] = Ord["CR"] /\ t[3] = Ord["LF"]
    THEN InCommonGrammar(SubSeq(t, 4, Len(t)))
    ELSE IF Len(t) >= 4 /\ t[2] = Ord["x"] /\ IsOctDigit(t[3]) /\ IsDigitOf(t[4], 16)
    THEN InCommonGrammar(SubSeq(t, 5, Len(t)))
    ELSE FALSE

\* C20: byte_str_lit and str_lit agree on their common grammar: for every ASCII
\* input built only from plain ASCII characters, the seven simple escapes,
\* backslash-x escapes of value at most 0x7F, line continuations and CR LF
\* pairs, either both end in the fatal error or the bytes byte_str_lit returns
\* are the UTF-8 bytes of the string str_lit returns.
C20_ByteStrAgrees ==
    (Returned("byte_str_lit") /\ InCommonGrammar(call.lit)) =>
        IF str_lit(call.lit).kind = "Str"
        THEN ret = BytesRet(as_bytes(str_lit(call.lit).str))
        ELSE ret.kind = "Fatal"

\* \x44 followed by a letter has been decoded to the same two bytes
C20_Witness ==
    /\ Returned("byte_str_lit")
    /\ call.lit = Txt(<<"\\", "x", "4", "4", "n">>)
    /\ str_lit(call.lit) = StrRet(Txt(<<"D", "n">>))
    /\ ret = BytesRet(Txt(<<"D", "n">>))

------------------------------------------------------------------------------
(* C21 *)

\* byte_lit reaches the last arm of its match: at least two bytes, a backslash
\* first, and a second byte that is none of the seven escape letters
NumericPath(lit) ==
    /\ str_len(lit) >= 2
    /\ as_bytes(lit)[1] = Ord["\\"]
    /\ ~\E e \in EscapeTable : as_bytes(lit)[2] = e[1]

\* the text has no bytes 2..4
TooShort(lit) == str_len(lit) < 4

\* the byte offset n is the start of a char of the text or its end
IsCharBoundary(lit, n) == \E i \in 1..Len(lit) + 1 : byte_offset(lit, i) = n

\* the bytes 2..4 exist but one end of the slice is inside a char
OffBoundary(lit) ==
    ~TooShort(lit) /\ ~(IsCharBoundary(lit, 2) /\ IsCharBoundary(lit, 4))

\* the bytes 2..4 are a number in radix 16: two hex digits, or a plus sign and
\* one hex digit
HexPair(lit) ==
    /\ ~TooShort(lit)
    /\ IsDigitOf(as_bytes(lit)[4], 16)
    /\ IsDigitOf(as_bytes(lit)[3], 16) \/ as_bytes(lit)[3] = Ord["+"]

\* the panic of the slice &lit[2..4]
SliceFailure == Fatal("byte index out of the text or off a char boundary")

\* C21 as stated: the only failures of the numeric path are a digit slice that
\* is not hex or is too short
C21_AsStated ==
    (Returned("byte_lit") /\ NumericPath(call.lit) /\ ret.kind = "Fatal") =>
        \/ TooShort(call.lit)
        \/ ~HexPair(call.lit) /\ ret = err(call.lit, 3)

\* C21: in byte_lit the 'value above 0xFF' fatal branch is unreachable for every
\* input: the numeric escape parses exactly the two bytes at positions 2..4, so
\* a successfully parsed value is at most 0xFF; the failures of the numeric path
\* are a digit slice that is too short, a slice bound inside a multi-byte
\* character, and two bytes that are not a radix-16 number.
C21_AboveUnreachable ==
    Returned("byte_lit") =>
        /\ ret # err(call.lit, 2)
        /\ NumericPath(call.lit) =>
            /\ ret.kind \in {"Byte", "Fatal"}
            /\ ret.kind = "Byte" =>
                   HexPair(call.lit) /\ ret.len = 4 /\ ret.b \in 0..255
            /\ ret.kind = "Fatal" =>
                   \/ TooShort(call.lit) /\ ret = SliceFailure
                   \/ OffBoundary(call.lit) /\ ret = SliceFailure
                   \/ /\ ~TooShort(call.lit) /\ ~OffBoundary(call.lit)
                      /\ ~HexPair(call.lit)
                      /\ ret = err(call.lit, 3)

\* the largest two-digit value has been returned through the last arm, and the
\* bytes 2..4 of another text of the bound split a two-byte character
C21_Witness ==
    /\ Returned("byte_lit")
    /\ call.lit = Txt(<<"\\", "g", "f", "f">>)
    /\ NumericPath(call.lit)
    /\ ret = ByteRet(255, 4)
    /\ OffBoundary(Txt(<<"\\", "e-acute", "4", "f">>))
    /\ byte_lit(Txt(<<"\\", "e-acute", "4", "f">>)) = SliceFailure

------------------------------------------------------------------------------
(* Every literal decoder in one state machine: a call of any of the seven *)

InitDecoders ==
    InitNumeric \/ InitChar \/ InitStr \/ InitRaw \/ InitByte \/ InitByteStr

NextDecoders ==
    IntegerLit \/ FloatLit \/ CharLit \/ StrLit \/ RawStrLit \/ ByteLit \/ ByteStrLit

SpecDecoders == InitDecoders /\ [][NextDecoders]_vars

------------------------------------------------------------------------------
(* C22 *)

\* the number of diagnostics emitted whose message is one of msgs
EmittedOf(msgs) == Cardinality({i \in 1..Len(diags) : diags[i].msg \in msgs})

\* no message has been emitted twice
NoMessageTwice ==
    \A i, j \in 1..Len(diags) : diags[i].msg = diags[j].msg => i = j

IntSuffixMsgs ==
    {"invalid width {} for integer literal", "invalid suffix {} for numeric literal"}

FloatSuffixMsgs ==
    {"invalid width {} for float literal", "invalid suffix {} for float literal"}

\* the call of integer_lit is handed to the float path: its suffix is f and digits
OnFloatPath ==
    /\ Returned("integer_lit")
    /\ call.suffix.some /\ WidthShaped({Ord["f"]}, call.suffix.val)

\* the decoders that are given no handler
HandlerFree == {"char_lit", "str_lit", "raw_str_lit", "byte_lit", "byte_str_lit"}

\* C22: a single call of integer_lit that returns emits at most two diagnostics
\* and never the same message twice: on the float path at most one 'not
\* supported' and at most one float-suffix diagnostic, on the integer path at
\* most one integer-suffix diagnostic and at most one "int literal is too large";
\* a single call of float_lit emits at most one diagnostic; char_lit, str_lit,
\* raw_str_lit, byte_lit and byte_str_lit emit none.
C22_DiagnosticCount ==
    /\ (Returned("integer_lit") /\ ret.kind # "Fatal") =>
           /\ Len(diags) <= 2
           /\ NoMessageTwice
           /\ IF OnFloatPath
              THEN /\ EmittedOf(NotSupported) <= 1
                   /\ EmittedOf(FloatSuffixMsgs) <= 1
                   /\ EmittedOf(NotSupported \cup FloatSuffixMsgs) = Len(diags)
              ELSE /\ EmittedOf(IntSuffixMsgs) <= 1
                   /\ EmittedOf({TooLarge}) <= 1
                   /\ EmittedOf(IntSuffixMsgs \cup {TooLarge}) = Len(diags)
    /\ (Returned("float_lit") /\ ret.kind # "Fatal") => Len(diags) <= 1
    /\ \A fn \in HandlerFree : Returned(fn) => diags = <<>>

\* 0x with seventeen digits f and the suffix i9: the suffix diagnostic, then the
\* magnitude diagnostic
C22_Witness ==
    /\ Returned("integer_lit")
    /\ call.lit = Txt(<<"0", "x">>) \o Repeat(Ord["f"], 17)
    /\ call.suffix = Some(Txt(<<"i", "9">>))
    /\ ret.kind = "Int"
    /\ diags = <<Diag("invalid width {} for integer literal", Txt(<<"9">>)),
                 Diag(TooLarge, <<>>)>>

\* a call on the float path has emitted two diagnostics as well
C22_WitnessFloatPath ==
    /\ OnFloatPath
    /\ Len(diags) = 2
    /\ EmittedOf(NotSupported) = 1
    /\ EmittedOf(FloatSuffixMsgs) = 1

\* a decoder without a handler has returned, and one has ended in its fatal error
C22_WitnessHandlerFree ==
    /\ Returned("byte_str_lit")
    /\ ret.kind = "Fatal"
    /\ diags = <<>>

====
